---- MODULE Spec2Model ----
(***************************************************************************)
(* Sensor acquisition subsystem of HTPP-UI (src/src/sensors.py).           *)
(*                                                                         *)
(* SerialSensor owns one serial handle and one background reader thread    *)
(* (update) that keeps overwriting the latest reading; SensorHandler keeps *)
(* a dict label -> SerialSensor and opens / closes / reads them in bulk.   *)
(*                                                                         *)
(* The caller of the handler is one thread (the "main" thread); every      *)
(* open connection has its own reader thread.  Main thread operations are  *)
(* split into steps where they block or where another thread can observe   *)
(* an intermediate state (Thread.join in close, the first-fix loop of      *)
(* setupGPS).                                                              *)
(***************************************************************************)
EXTENDS Integers, Sequences, FiniteSets, TLC

\* Labels the caller can register (label[0] is the sensor kind).
Labels == {"gL", "mL1", "uL1"}

\* label[0]: the kind selects the parser (targets) and the variable list.
Kind(label) ==
    CASE label = "gL" -> "g"
      [] label = "mL1" -> "m"
      [] label = "uL1" -> "u"

\* Bound of the model: the largest number of labels registered.
MaxFleet == 2

VARIABLES
    order,      \* keys of SensorHandler.sensors in dict (insertion) order
    sensors,    \* label -> fields of the registered SerialSensor object
    alive,      \* label -> number of running threads started by that object
    rpc,        \* label -> position of the object's reader thread (update)
    silent,     \* label -> the device behind the open handle sends nothing
    orphaned,   \* a reader thread of an object replaced by add() is running
    measurements,           \* SensorHandler.measurements, per label
    previous_measurements,  \* SensorHandler.previous_measurements
    GPS_constants,          \* SensorHandler.GPS_constants
    op,         \* operation the main thread is executing ("idle" if none)
    pc,         \* position of the main thread inside op
    i,          \* openAll / closeAll: 1-based index of the loop over labels
    j,          \* openAll: 1-based index of the rollback loop
    success,    \* openAll: result of the last open()
    cur,        \* label whose open() / close() / read() is executing
    ev,         \* history: the open() call made by the last main-thread
                \* step, or the return of openAll / closeAll it made
    repeated,   \* history: the running closeAll follows a return of
                \* closeAll
    preClosed,  \* history: every connection was Closed when the running
                \* openAll / closeAll was called
    failedAt,   \* history: index of the open() that returned False in the
                \* running openAll (0: none)
    n,          \* read cycles completed: the num_readings the caller passes
    prior,      \* history: measurements when the running read cycle began
    parser,     \* one parser call on its own: input, position, samples
    gps,        \* one GPS label followed in numbers: clock, frame, last
                \* stored reading, last processGPS call
    plot,       \* one PlotData object: its attributes and the updateData
                \* calls since its last reset
    store,      \* the measurements map key by key, and the last read() or
                \* simulate() call that was followed on it
    rt          \* the RepeatedTimer of the main window, its Timer objects
                \* and the position of each thread inside its methods

vars == <<order, sensors, alive, rpc, silent, orphaned,
          measurements, previous_measurements, GPS_constants,
          op, pc, i, j, success, cur, ev, repeated, preClosed, failedAt,
          n, prior, parser, gps, plot, store, rt>>

conn == <<sensors, alive, rpc, silent>>
maps == <<measurements, previous_measurements, GPS_constants>>
main == <<op, pc, i, j, success, cur, ev, repeated, preClosed, failedAt>>
calls == <<n, prior, parser, gps, plot, store, rt>>
fleet == <<order, conn, orphaned, maps, main, n, prior, gps, plot,
           store, rt>>
others == <<order, conn, orphaned, maps, main, n, prior, parser, gps, plot,
            store>>

\* SerialSensor.__init__, line 276: the default of the baudrate argument.
DefaultBaudrate == 38400

\* SerialSensor.__init__ as add() calls it, SerialSensor(port, label): the
\* fields of a new connection object.
NewSensor ==
    [is_connected |-> FALSE, device |-> "None", thread |-> "None",
     end_flag |-> TRUE, value |-> "None", baudrate |-> DefaultBaudrate]

NoEvent == [kind |-> "none"]

\* No parser call is being followed.
NoCall == [kind |-> "none"]

\* variables, lines 212-244: the number of fields of each kind.
FieldCount(label) ==
    CASE Kind(label) = "m" -> 9
      [] Kind(label) = "u" -> 1
      [] Kind(label) = "g" -> 9

\* The keys label + "/" + field of the measurements map.
Keys == {key \in Labels \X (1..9) : key[2] <= FieldCount(key[1])}

\* self.measurements = {}, line 359: no key yet, no call yet.
NoStore == [fields |-> [key \in Keys |-> "absent"], call |-> <<>>]

\* Largest number of Timer objects one RepeatedTimer creates.
MaxTimers == 3

\* The threads: 0 is the owner (the thread of the window), k is the thread
\* of the k-th Timer.
Threads == 0..MaxTimers

\* No RepeatedTimer object yet (MainWindow.rt is set by OnStart only).
NoTimer == [made |-> FALSE, is_running |-> FALSE, timer |-> 0,
            state |-> <<>>, pc |-> [t \in Threads |-> "idle"],
            stopped |-> FALSE, raised |-> FALSE]

\* No PlotData object yet.
NoPlot == [sensor_type |-> "", scaling |-> FALSE, num_sensors |-> 0,
           data |-> <<>>, updates |-> <<>>]

\* No frame, nothing measured, no reading counted, no processGPS call yet,
\* clock at 0.
NoGPS == [now |-> 0, origin |-> <<>>, constants |-> <<>>,
          measured |-> <<>>, count |-> 0, call |-> <<>>]

\* SensorHandler.__init__ (no label registered, empty maps, no frame).
Init ==
    /\ order = <<>>
    /\ sensors = [l \in Labels |-> NewSensor]
    /\ alive = [l \in Labels |-> 0]
    /\ rpc = [l \in Labels |-> "dead"]
    /\ silent = [l \in Labels |-> FALSE]
    /\ orphaned = FALSE
    /\ measurements = [l \in Labels |-> "absent"]
    /\ previous_measurements = [l \in Labels |-> "absent"]
    /\ GPS_constants = "None"
    /\ op = "idle"
    /\ pc = "idle"
    /\ i = 0
    /\ j = 0
    /\ success = "None"
    /\ cur = "gL"
    /\ ev = NoEvent
    /\ repeated = FALSE
    /\ preClosed = FALSE
    /\ failedAt = 0
    /\ n = 0
    /\ prior = [l \in Labels |-> "absent"]
    /\ parser = NoCall
    /\ gps = NoGPS
    /\ plot = NoPlot
    /\ store = NoStore
    /\ rt = NoTimer

Registered == {order[k] : k \in 1..Len(order)}

\* A connection in state Closed.
Closed(label) ==
    /\ ~sensors[label].is_connected
    /\ sensors[label].device = "None"
    /\ sensors[label].thread = "None"

AllClosed == \A l \in Registered : Closed(l)

\* The last main-thread step returned from operation name.
LastWas(name) == ev.kind = "return" /\ ev.op = name

\* The main thread, idle, calls operation name and goes on at position at.
Enter(name, at) ==
    /\ op = "idle"
    /\ op' = name
    /\ pc' = at
    /\ repeated' = (name = "closeAll" /\ LastWas(name))
    /\ preClosed' = (name \in {"openAll", "closeAll"} /\ AllClosed)
    /\ failedAt' = 0
    /\ ev' = NoEvent

\* The call goes on at position at of the operation it is in.
Goto(at) ==
    /\ pc' = at
    /\ UNCHANGED <<op, repeated, preClosed>>

\* The main thread is idle again; the locals of the call are gone and e
\* records how the call ended.
Leave(e) ==
    /\ op' = "idle"
    /\ pc' = "idle"
    /\ i' = 0
    /\ j' = 0
    /\ success' = "None"
    /\ cur' = "gL"
    /\ repeated' = FALSE
    /\ preClosed' = FALSE
    /\ failedAt' = 0
    /\ ev' = e

\* Record of a return of openAll / closeAll with value val ("raise": an
\* exception left the call).
ReturnEvent(name, val, rep, allClosed, failed) ==
    [kind |-> "return", op |-> name, val |-> val, repeated |-> rep,
     preClosed |-> allClosed, failedAt |-> failed]

\* The running call of operation name returns val.
Return(name, val) ==
    Leave(ReturnEvent(name, val, repeated, preClosed, failedAt))

(***************************************************************************)
(* SerialSensor                                                            *)
(***************************************************************************)

OpenEntersAlways(c) == TRUE

\* open(), line 293: only a connection that is not connected is opened.
OpenEnters(c) == ~c.is_connected

OpenSucceededClearsValue(c) ==
    [c EXCEPT !.device = "Serial", !.end_flag = FALSE,
              !.thread = "Thread", !.is_connected = TRUE, !.value = "None"]

\* open(), lines 295-298 and 305: handle acquired, flag cleared, thread
\* started, connected.
OpenSucceeded(c) ==
    [c EXCEPT !.device = "Serial", !.end_flag = FALSE,
              !.thread = "Thread", !.is_connected = TRUE]

OpenFailedFallsThrough(c) ==
    [c EXCEPT !.device = "None", !.thread = "None", !.is_connected = TRUE]

\* open(), lines 299-303: serial.Serial raised; both handles are dropped
\* and the else branch (line 305) is not taken.
OpenFailed(c) == [c EXCEPT !.device = "None", !.thread = "None"]

\* Value returned by open(): None when already connected.
OpenResult(c, acquired) ==
    IF ~OpenEnters(c) THEN "None"
    ELSE IF acquired THEN "True" ELSE "False"

\* One call of sensors[label].open(); acquired is whether serial.Serial
\* gets the port, quiet whether the device behind it sends nothing.  The
\* new thread starts at the loop test of update().
SensorOpen(label, acquired, quiet) ==
    LET c == sensors[label] IN
    IF OpenEnters(c) /\ acquired
    THEN /\ sensors' = [sensors EXCEPT ![label] = OpenSucceeded(c)]
         /\ alive' = [alive EXCEPT ![label] = @ + 1]
         /\ rpc' = [rpc EXCEPT ![label] = "loop"]
         /\ silent' = [silent EXCEPT ![label] = quiet]
    ELSE IF OpenEnters(c)
    THEN /\ sensors' = [sensors EXCEPT ![label] = OpenFailed(c)]
         /\ UNCHANGED <<alive, rpc, silent>>
    ELSE UNCHANGED conn

\* Record of one open() call: the connection's flag before it, whether
\* serial.Serial was called and returned a handle, and the value returned.
OpenEvent(label, acquired) ==
    [kind |-> "open", label |-> label, pre |-> sensors[label].is_connected,
     acquired |-> (~sensors[label].is_connected /\ acquired),
     res |-> OpenResult(sensors[label], acquired)]

\* close(), line 315: only a connected connection is closed.
CloseEnters(c) == c.is_connected

CloseNotSignalled(c) == c

\* close(), line 316.
CloseSignalled(c) == [c EXCEPT !.end_flag = TRUE]

JoinReturnsNow(label) == TRUE

\* close(), lines 318-319: Thread.join() returns once the thread has ended
\* (a thread that is not alive is not joined).
JoinReturns(label) == alive[label] = 0

CloseJoinedKeepsThread(c) == c

\* close(), line 320.
CloseJoined(c) == [c EXCEPT !.thread = "None"]

\* close(), lines 321-324: the serial handle is closed and dropped.
CloseReleased(c) == [c EXCEPT !.device = "None"]

CloseDoneStaysConnected(c) == c

\* close(), line 325.
CloseDone(c) == [c EXCEPT !.is_connected = FALSE]

SensorReadStored(c) == c.value

\* SerialSensor.read(): the stored value of a connected connection.
SensorRead(c) == IF c.is_connected THEN c.value ELSE "None"

(***************************************************************************)
(* Reader thread: update() and the parser call it makes.                   *)
(***************************************************************************)

\* The serial reads of the thread yield no data: the device sends nothing
\* (every read ends in the 1 s timeout) or the handle was closed under the
\* thread (every read raises).
NoData(label) == silent[label] \/ sensors[label].device = "None"

\* Whether the parser call of the label returns.
\* getMultispectralReading / getEnvironmentalReading: for i in
\* range(numValues), one readline each, so the call returns after numValues
\* reads whatever they yield.  getGPSReading: while count < numValues, and
\* count grows only on a "$GPGGA" line that parses; a timeout raises inside
\* the try and the loop repeats.  getUltrasonicReading: while count <
\* numValues, and count grows only on a "\r" byte; an empty read is stored
\* as a payload byte and the loop repeats.
ParserReturns(label) ==
    CASE Kind(label) = "g" -> ~NoData(label)
      [] Kind(label) = "u" -> ~NoData(label)
      [] OTHER -> TRUE

\* Vectors the parser call can return: "ok" has no NaN, "nan" has a missing
\* field (np.nanmean over samples that were all left NaN).
ParserResults(label) ==
    IF NoData(label) THEN {"nan"} ELSE {"nan", "ok"}

\* update(), line 338: the loop test, the only place end_flag is read.
ReaderLoop(label) ==
    /\ rpc[label] = "loop"
    /\ IF sensors[label].end_flag
       THEN /\ rpc' = [rpc EXCEPT ![label] = "dead"]
            /\ alive' = [alive EXCEPT ![label] = @ - 1]
       ELSE /\ rpc' = [rpc EXCEPT ![label] = "parse"]
            /\ UNCHANGED alive
    /\ UNCHANGED <<order, sensors, silent, orphaned, maps, main, calls>>

\* update(), line 339: the parser call returns and its vector is stored.
ReaderRead(label) ==
    /\ rpc[label] = "parse"
    /\ ParserReturns(label)
    /\ \E reading \in ParserResults(label) :
        sensors' = [sensors EXCEPT ![label].value = reading]
    /\ rpc' = [rpc EXCEPT ![label] = "loop"]
    /\ UNCHANGED <<order, alive, silent, orphaned, maps, main, calls>>

(***************************************************************************)
(* SensorHandler, and direct calls of a connection's open() / close().     *)
(***************************************************************************)

\* add(), lines 365-366: a new object is stored under the label; an
\* existing key keeps its place in the dict and its old object is dropped
\* without being closed, so a thread it started keeps running.
Add(label) ==
    /\ op = "idle"
    /\ label \in Registered \/ Len(order) < MaxFleet
    /\ order' = IF label \in Registered THEN order ELSE Append(order, label)
    /\ sensors' = [sensors EXCEPT ![label] = NewSensor]
    /\ orphaned' = (orphaned \/ alive[label] > 0)
    /\ alive' = [alive EXCEPT ![label] = 0]
    /\ rpc' = [rpc EXCEPT ![label] = "dead"]
    /\ silent' = [silent EXCEPT ![label] = FALSE]
    /\ Leave(NoEvent)
    /\ UNCHANGED <<maps, calls>>

\* sensors[label].open() called by the owner of the connection.
Open(label) ==
    /\ op = "idle"
    /\ label \in Registered
    /\ \E acquired \in BOOLEAN, quiet \in BOOLEAN :
        /\ acquired \/ ~quiet
        /\ SensorOpen(label, acquired, quiet)
        /\ Leave(OpenEvent(label, acquired))
    /\ UNCHANGED <<order, orphaned, maps, calls>>

RollbackLastShort(k) == k - 2

\* openAll(), line 393: for j in range(i) closes the labels before index
\* i; with 1-based indices the last one closed is i - 1.
RollbackLast(k) == k - 1

\* What follows a finished close(): the caller's loop, or the return.
AfterClose ==
    CASE op = "closeAll" ->
            IF i < Len(order)
            THEN /\ Goto("c_enter")
                 /\ i' = i + 1
                 /\ cur' = order[i + 1]
                 /\ UNCHANGED <<j, success, failedAt, ev>>
            ELSE Return("closeAll", "None")
      [] op = "openAll" ->
            \* lines 393-395: for j in range(i), then return False
            IF j + 1 <= RollbackLast(i)
            THEN /\ Goto("c_enter")
                 /\ j' = j + 1
                 /\ cur' = order[j + 1]
                 /\ UNCHANGED <<i, success, failedAt, ev>>
            ELSE Return("openAll", "False")
      [] OTHER -> Leave(NoEvent)

\* close() of sensors[cur], lines 315-316: the guard and the stop flag.
CloseEnter ==
    /\ pc = "c_enter"
    /\ IF CloseEnters(sensors[cur])
       THEN /\ sensors' = [sensors EXCEPT ![cur] = CloseSignalled(@)]
            /\ Goto("c_join")
            /\ UNCHANGED <<i, j, cur, success, failedAt, ev>>
       ELSE /\ AfterClose
            /\ UNCHANGED sensors
    /\ UNCHANGED <<order, alive, rpc, silent, orphaned, maps, calls>>

\* close(), lines 317-320: wait for the thread, drop it.
CloseJoin ==
    /\ pc = "c_join"
    /\ sensors[cur].thread # "None" => JoinReturns(cur)
    /\ sensors' = [sensors EXCEPT ![cur] = CloseJoined(@)]
    /\ Goto("c_dev")
    /\ UNCHANGED <<order, alive, rpc, silent, orphaned, maps, calls,
                   i, j, cur, success, failedAt, ev>>

\* close(), lines 321-324: release the serial handle.
CloseDevice ==
    /\ pc = "c_dev"
    /\ sensors' = [sensors EXCEPT ![cur] = CloseReleased(@)]
    /\ silent' = [silent EXCEPT ![cur] = FALSE]
    /\ Goto("c_conn")
    /\ UNCHANGED <<order, alive, rpc, orphaned, maps, calls,
                   i, j, cur, success, failedAt, ev>>

\* close(), line 325, and the return to the caller.
CloseFinish ==
    /\ pc = "c_conn"
    /\ sensors' = [sensors EXCEPT ![cur] = CloseDone(@)]
    /\ AfterClose
    /\ UNCHANGED <<order, alive, rpc, silent, orphaned, maps, calls>>

\* sensors[label].close() called by the owner of the connection.
Close(label) ==
    /\ label \in Registered
    /\ Enter("close", "c_enter")
    /\ cur' = label
    /\ UNCHANGED <<order, conn, orphaned, maps, calls, i, j, success>>

\* closeAll(), lines 399-400: close() of every value of the dict.
CloseAll ==
    /\ op = "idle"
    /\ IF order = <<>>
       THEN Leave(ReturnEvent("closeAll", "None", LastWas("closeAll"),
                              TRUE, 0))
       ELSE /\ Enter("closeAll", "c_enter")
            /\ i' = 1
            /\ cur' = order[1]
            /\ UNCHANGED <<j, success>>
    /\ UNCHANGED <<order, conn, orphaned, maps, calls>>

\* read(label, 0, None) of a GPS label, as setupGPS calls it (lines
\* 461-465 and 479): after the snapshot, the stored reading is returned.
ReadValue(label) ==
    IF label \in Registered THEN SensorRead(sensors[label]) ELSE "None"

\* openAll(), line 375 and the first iteration; with no label registered
\* the loop is skipped and labels[-1] (line 390) raises IndexError.
OpenAll ==
    /\ op = "idle"
    /\ IF order = <<>>
       THEN Leave(ReturnEvent("openAll", "raise", FALSE, TRUE, 0))
       ELSE /\ Enter("openAll", "oa_open")
            /\ i' = 1
            /\ cur' = order[1]
            /\ UNCHANGED <<j, success>>
    /\ UNCHANGED <<order, conn, orphaned, maps, calls>>

\* openAll(), lines 385-388 and the loop header: break unless open()
\* returned True (False and None are both falsy), else the next label.
OpenAllNext(res) ==
    IF res = "True" /\ i < Len(order)
    THEN /\ Goto("oa_open")
         /\ i' = i + 1
         /\ cur' = order[i + 1]
    ELSE /\ Goto("oa_check")
         /\ UNCHANGED <<i, cur>>

\* openAll(), line 379: setupGPS is called for a label of kind g.
CallsSetupGPS(label, res) == Kind(label) = "g"

\* openAll(), lines 378-380: open() of labels[i].
OpenAllOpen ==
    /\ pc = "oa_open"
    /\ \E acquired \in BOOLEAN, quiet \in BOOLEAN :
        LET res == OpenResult(sensors[cur], acquired) IN
        /\ acquired \/ ~quiet
        /\ SensorOpen(cur, acquired, quiet)
        /\ success' = res
        /\ failedAt' = IF res = "False" /\ failedAt = 0 THEN i ELSE failedAt
        /\ ev' = OpenEvent(cur, acquired)
        /\ IF CallsSetupGPS(cur, res)
           THEN Goto("oa_gps") /\ UNCHANGED <<i, cur>>
           ELSE OpenAllNext(res)
    /\ UNCHANGED <<order, orphaned, maps, calls, j>>

\* setupGPS(), lines 494-499: one iteration of the first-fix loop; it
\* leaves the loop with a reading that is not None and has no NaN.
SetupGPS ==
    /\ pc = "oa_gps"
    /\ previous_measurements' = measurements
    /\ IF ReadValue(cur) = "ok"
       THEN /\ GPS_constants' = "frame"
            /\ OpenAllNext(success)
       ELSE UNCHANGED <<GPS_constants, op, pc, i, cur, repeated, preClosed>>
    /\ ev' = NoEvent
    /\ UNCHANGED <<order, conn, orphaned, measurements, calls, j, success,
                   failedAt>>

\* openAll(), lines 390-395: success is decided by the last label alone;
\* otherwise the labels before index i are closed.
OpenAllCheck ==
    /\ pc = "oa_check"
    /\ IF sensors[order[Len(order)]].is_connected
       THEN Return("openAll", "True")
       ELSE IF RollbackLast(i) >= 1
       THEN /\ Goto("c_enter")
            /\ j' = 1
            /\ cur' = order[1]
            /\ ev' = NoEvent
            /\ UNCHANGED <<i, success, failedAt>>
       ELSE Return("openAll", "False")
    /\ UNCHANGED <<order, conn, orphaned, maps, calls>>

(***************************************************************************)
(* SensorHandler.read / simulate and the read cycle of the caller.         *)
(***************************************************************************)

\* Bound of the model: the largest number of read cycles completed.
MaxReadings == 2

\* label[1]: the side of the toolbar the sensor is mounted on.
Side(label) ==
    CASE label = "gL" -> "L"
      [] label = "mL1" -> "L"
      [] label = "uL1" -> "L"

\* Entries of the layout configuration that processGPS asks for.
Entries == {"DGLX", "DGLY", "DGRX", "DGRY"}

\* The cfg argument: None, or a wx.Config holding some of the entries.
Configs ==
    {[isNone |-> TRUE, entries |-> {}]}
        \cup {[isNone |-> FALSE, entries |-> e] : e \in SUBSET Entries}

\* processGPS, lines 556 and 565: the offsets of the label's side are set.
HasOffsets(label, cfg) ==
    \/ Side(label) = "L" /\ {"DGLX", "DGLY"} \subseteq cfg.entries
    \/ Side(label) = "R" /\ {"DGRX", "DGRY"} \subseteq cfg.entries

\* The nine-field vector processGPS builds from a raw fix (lines 576-588).
Augmented(someValue) == IF someValue = "ok" THEN "aug_ok" ELSE "aug_nan"

\* processGPS(someValue, label, GPS_constants, previous_measurements,
\* num_readings, cfg): "raise" with the line that raises, "None" (line
\* 575) or the augmented vector.  elapsed: the clock value of this fix
\* differs from old_time, so the divisor of line 553 is not zero.
ProcessGPS(someValue, label, constants, previous, num, cfg, elapsed) ==
    CASE constants = "None" ->
            [tag |-> "raise", val |-> "TypeError", line |-> 533]
      [] constants # "None" /\ someValue = "None" ->
            [tag |-> "raise", val |-> "TypeError", line |-> 538]
      [] constants # "None" /\ someValue # "None" /\ num # 0
              /\ previous[label] = "absent" ->
            [tag |-> "raise", val |-> "KeyError", line |-> 548]
      [] constants # "None" /\ someValue # "None"
              /\ (num = 0 \/ previous[label] # "absent") /\ ~elapsed ->
            [tag |-> "raise", val |-> "ZeroDivisionError", line |-> 552]
      [] OTHER ->
            IF cfg.isNone /\ Side(label) \in {"L", "R"}
            THEN [tag |-> "raise", val |-> "AttributeError", line |-> 556]
            ELSE IF HasOffsets(label, cfg)
            THEN [tag |-> "value", val |-> Augmented(someValue), line |-> 576]
            ELSE [tag |-> "None", val |-> "None", line |-> 575]

\* What follows processGPS in read() and simulate() (lines 474-475 and
\* 443-444): reading[i] is subscripted, which raises when reading is None.
StoreProcessed(p, at) ==
    CASE p.tag = "raise" -> [p EXCEPT !.tag = "raise"] @@ [write |-> FALSE]
      [] p.tag = "None" ->
            [tag |-> "raise", val |-> "TypeError", line |-> at,
             write |-> FALSE]
      [] OTHER -> p @@ [write |-> TRUE]

\* read(), lines 476-478, a label that is not of kind g: reading[i] is
\* subscripted for the first variable of the kind, which raises TypeError
\* when the connection has no reading (None); else every field is stored.
ReadStores(reading) ==
    IF reading = "None"
    THEN [tag |-> "raise", val |-> "TypeError", line |-> 478,
          write |-> FALSE]
    ELSE [tag |-> "value", val |-> reading, line |-> 479, write |-> TRUE]

\* read(label, num_readings, cfg) after the snapshot of line 461: the
\* value returned or the exception raised, and whether the measurements of
\* the label are written (with val).
ReadOutcome(label, num, cfg, elapsed) ==
    IF label \notin Registered
    THEN [tag |-> "return", val |-> "None", line |-> 481, write |-> FALSE]
    ELSE LET reading == SensorRead(sensors[label]) IN
         IF Kind(label) = "g"
         THEN IF cfg.isNone
              THEN [tag |-> "return", val |-> reading, line |-> 479,
                    write |-> FALSE]
              ELSE StoreProcessed(
                       ProcessGPS(reading, label, GPS_constants,
                                  measurements, num, cfg, elapsed), 475)
         ELSE ReadStores(reading)

\* simulate(label, num_readings, cfg) after the snapshot of line 417: a
\* fix on the predefined curve goes through processGPS; other kinds get
\* random numbers.
SimulateOutcome(label, num, cfg, elapsed) ==
    IF Kind(label) = "g"
    THEN StoreProcessed(
             ProcessGPS("ok", label, GPS_constants, measurements, num, cfg,
                        elapsed), 444)
    ELSE [tag |-> "value", val |-> "ok", line |-> 445, write |-> TRUE]

\* Record of one read() / simulate() call of the handler: whether it
\* returned or raised, and whether a cfg was given that lacks the offsets
\* of the label's side.
CallEvent(label, out, cfg) ==
    [kind |-> "call",
     tag |-> IF out.tag = "raise" THEN "raise" ELSE "return",
     missing |-> (Kind(label) = "g" /\ ~cfg.isNone
                    /\ ~HasOffsets(label, cfg))]

\* SerialSensor.read() called by the owner of the connection.
Read(label) ==
    /\ op = "idle"
    /\ label \in Registered
    /\ Leave([kind |-> "sread", label |-> label,
              res |-> SensorRead(sensors[label])])
    /\ UNCHANGED <<order, conn, orphaned, maps, calls>>

\* The caller begins a read cycle: read() (or simulate()) of every
\* registered label in turn, with the number of cycles completed.
CycleStart(name) ==
    /\ order # <<>>
    /\ n < MaxReadings
    /\ Enter(name, "rc_call")
    /\ i' = 1
    /\ cur' = order[1]
    /\ prior' = measurements
    /\ UNCHANGED <<order, conn, orphaned, maps, n, parser, gps, plot, store, rt,
                   j,
                   success>>

FrameAfterCallDropped(constants) == "None"

\* read() and simulate(), lines 431-438 and 466-473: GPS_constants is handed
\* to processGPS as an argument and is not assigned.
FrameAfterCall(constants) == constants

\* One read(cur, n, cfg) or simulate(cur, n, cfg) of the cycle: the
\* snapshot (line 461 / 417), then the reading is stored; an exception
\* ends the cycle.
CycleCall ==
    /\ pc = "rc_call"
    /\ \E cfg \in Configs, elapsed \in BOOLEAN :
        LET out == IF op = "read"
                   THEN ReadOutcome(cur, n, cfg, elapsed)
                   ELSE SimulateOutcome(cur, n, cfg, elapsed)
            after == IF out.write
                     THEN [measurements EXCEPT ![cur] = out.val]
                     ELSE measurements
            e == CallEvent(cur, out, cfg)
        IN  /\ previous_measurements' = measurements
            /\ measurements' = after
            /\ IF out.tag # "raise" /\ i < Len(order)
               THEN /\ Goto("rc_call")
                    /\ i' = i + 1
                    /\ cur' = order[i + 1]
                    /\ ev' = e
                    /\ UNCHANGED <<n, prior, j, success, failedAt>>
               ELSE /\ Leave(e)
                    /\ n' = IF out.tag = "raise" THEN n ELSE n + 1
                    /\ prior' = [l \in Labels |-> "absent"]
    /\ GPS_constants' = FrameAfterCall(GPS_constants)
    /\ UNCHANGED <<order, conn, orphaned, parser, gps, plot, store, rt>>

\* read(label, n, cfg) of the handler for a label that was never added,
\* lines 461-481: the snapshot of line 461 comes before the test of the
\* label.
ReadUnregistered(label) ==
    /\ op = "idle"
    /\ label \notin Registered
    /\ \E cfg \in Configs, elapsed \in BOOLEAN :
        LET out == ReadOutcome(label, n, cfg, elapsed) IN
        /\ previous_measurements' = measurements
        /\ measurements' = IF out.write
                           THEN [measurements EXCEPT ![label] = out.val]
                           ELSE measurements
        /\ Leave([kind |-> "uread", label |-> label, res |-> out.val])
    /\ GPS_constants' = FrameAfterCall(GPS_constants)
    /\ UNCHANGED <<order, conn, orphaned, calls>>

(***************************************************************************)
(* The parsers (get*Reading), followed on their own: one call reads the    *)
(* items of an input sequence and, once they are used up, gets nothing     *)
(* more from the device (every read ends in the timeout).  Numbers are     *)
(* exact fractions; the rounding of floats is not modelled.                *)
(***************************************************************************)

\* Bound of the model: the largest number of lines / frames of an input.
MaxItems == 3

Abs(x) == IF x < 0 THEN -x ELSE x

RECURSIVE GCD(_, _)
GCD(a, b) == IF b = 0 THEN a ELSE GCD(b, a % b)

\* np.nan.
NaN == [nan |-> TRUE, num |-> 0, den |-> 1]

\* The fraction p / q in lowest terms; q = 0 is an infinity (float division
\* of numpy arrays by zero gives inf, and 0 / 0 gives nan).
Rat(p, q) ==
    IF q = 0
    THEN IF p = 0 THEN NaN
         ELSE [nan |-> FALSE, num |-> IF p < 0 THEN -1 ELSE 1, den |-> 0]
    ELSE LET g == GCD(Abs(p), Abs(q))
             s == IF q < 0 THEN -1 ELSE 1
         IN  [nan |-> FALSE, num |-> (s * p) \div g, den |-> (s * q) \div g]

Num(v) == Rat(v, 1)

RatAdd(a, b) ==
    IF a.nan \/ b.nan THEN NaN
    ELSE IF a.den = 0 /\ b.den = 0
    THEN IF a.num = b.num THEN a ELSE NaN
    ELSE IF a.den = 0 THEN a
    ELSE IF b.den = 0 THEN b
    ELSE LET l == (a.den \div GCD(a.den, b.den)) * b.den IN
         Rat(a.num * (l \div a.den) + b.num * (l \div b.den), l)

RatDiv(a, b) ==
    IF a.nan \/ b.nan THEN NaN
    ELSE IF a.den = 0 /\ b.den = 0 THEN NaN
    ELSE IF a.den = 0
    THEN Rat(IF b.num < 0 THEN -a.num ELSE a.num, 0)
    ELSE IF b.den = 0 THEN Num(0)
    ELSE Rat(a.num * b.den, a.den * b.num)

RECURSIVE SumCells(_)
SumCells(cells) ==
    IF cells = <<>> THEN Num(0)
    ELSE RatAdd(Head(cells), SumCells(Tail(cells)))

\* The cells of a column that are not NaN.
RECURSIVE Valid(_)
Valid(cells) ==
    IF cells = <<>> THEN <<>>
    ELSE IF Head(cells).nan THEN Valid(Tail(cells))
    ELSE <<Head(cells)>> \o Valid(Tail(cells))

\* np.nanmean of one column: the mean of the cells that are not NaN, and
\* NaN ("Mean of empty slice") when every cell is NaN.
NanMeanColumn(cells) ==
    IF Valid(cells) = <<>> THEN NaN
    ELSE RatDiv(SumCells(Valid(cells)), Num(Len(Valid(cells))))

\* np.nanmean(values, axis=0).
NanMean(values, width) ==
    [c \in 1..width |->
        NanMeanColumn([r \in 1..Len(values) |-> values[r][c]])]

\* numValues: the default of each parser, which update() relies on
\* (self.read_function(self.device), line 339).
NumValues(kind) ==
    CASE kind = "m" -> 3
      [] kind = "u" -> 3
      [] kind = "g" -> 2
      [] kind = "e" -> 3

WidthOfOldModel(kind) ==
    CASE kind = "m" -> 6
      [] kind = "u" -> 1
      [] kind = "g" -> 2
      [] kind = "e" -> 6

\* Columns of the values array of each parser (lines 48, 104, 146, 181).
Width(kind) ==
    CASE kind = "m" -> 9
      [] kind = "u" -> 1
      [] kind = "g" -> 2
      [] kind = "e" -> 6

EmptyCellZero == Num(0)

\* values.fill(np.nan), lines 49, 105, 147 and 182.
EmptyCell == NaN

\* np.empty((numValues, width)) filled with NaN.
EmptyValues(kind) ==
    [r \in 1..NumValues(kind) |-> [c \in 1..Width(kind) |-> EmptyCell]]

\* A token of a comma-separated line: float(measure) gives v or raises.
Tok(v) == [num |-> TRUE, v |-> v]
BadTok == [num |-> FALSE, v |-> 0]

\* A line as readline().strip().decode() gives it, split at the commas;
\* ok is FALSE when reading or decoding raised.
Line(tokens) == [ok |-> TRUE, tokens |-> tokens]
BadLine == [ok |-> FALSE, tokens |-> <<>>]

\* readline() at the timeout returns b"": "".split(",") is one empty token.
TimeoutLine == Line(<<BadTok>>)

\* Lines a multispectral or environmental sensor is given to send: two
\* complete lines, one with a field that is not a number, one a token
\* short, one a token long, an undecodable one and an empty one.
LineSamples ==
    {Line(<<Tok(1), Tok(2), Tok(3), Tok(4), Tok(5), Tok(2), Tok(6), Tok(7)>>),
     Line(<<Tok(3), Tok(2), Tok(5), Tok(4), Tok(1), Tok(4), Tok(6), Tok(1)>>),
     Line(<<Tok(1), BadTok, Tok(3), Tok(4), Tok(5), Tok(2), Tok(4), Tok(7)>>),
     Line(<<Tok(1), Tok(2), Tok(3), Tok(4), Tok(5), Tok(2), Tok(6)>>),
     Line(<<Tok(1), Tok(2), Tok(3), Tok(4), Tok(5), Tok(2), Tok(6), Tok(7),
            Tok(8)>>),
     BadLine,
     TimeoutLine}

\* A line of a GPS receiver: unparsable (pynmea2.parse raises), a sentence
\* that is not GGA, or a GGA sentence with its longitude and latitude.
Sentence(type, lon, lat) == [type |-> type, lon |-> lon, lat |-> lat]
Unparsable == Sentence("bad", 0, 0)

SentenceSamples ==
    {Sentence("GGA", 10, 20), Sentence("GGA", 30, 60), Sentence("GGA", 0, 0),
     Sentence("RMC", 10, 20), Unparsable}

\* Frames of the ultrasonic sensor, each followed by "\r": five digits (raw
\* 500, 1000 and 10), a payload that is not a number, and one digit.
FrameSamples ==
    {<<"0", "0", "5", "0", "0">>, <<"0", "1", "0", "0", "0">>,
     <<"0", "0", "0", "1", "0">>, <<"0", "0", "x", "0", "0">>, <<"7">>}

\* The bytes of a sequence of frames as device.read() hands them out.
RECURSIVE Bytes(_)
Bytes(frames) ==
    IF frames = <<>> THEN <<>>
    ELSE Head(frames) \o <<"\r">> \o Bytes(Tail(frames))

\* Sequences of at most MaxItems members of a set.
SeqsUpTo(S) == UNION {[1..k -> S] : k \in 0..MaxItems}

\* The inputs a call of each parser is followed on.
Inputs(kind) ==
    CASE kind = "m" -> SeqsUpTo(LineSamples)
      [] kind = "e" -> SeqsUpTo(LineSamples)
      [] kind = "g" -> SeqsUpTo(SentenceSamples)
      [] kind = "u" -> SeqsUpTo(FrameSamples)

\* The locals of a parser at its first statement.
ParserStart(kind, input) ==
    [kind |-> kind, input |-> input,
     stream |-> IF kind = "u" THEN Bytes(input) ELSE input,
     pos |-> 0, count |-> 0, index |-> 0,
     charList |-> <<"0", "0", "0", "0", "0">>,
     values |-> EmptyValues(kind), raised |-> FALSE, done |-> FALSE]

\* A call of a parser begins.
ParserCall(kind, input) ==
    /\ parser.kind = "none"
    /\ parser' = ParserStart(kind, input)
    /\ UNCHANGED fleet

\* The input has something left for the next read.
HasNext == parser.pos < Len(parser.stream)

\* getMultispectralReading, lines 50-64: one pass of the loop.  A line of
\* eight tokens fills columns 1..8 of row i with the tokens that float()
\* accepts; any other line leaves the row as it is.
MultispectralRow(row, line) ==
    IF line.ok /\ Len(line.tokens) = 8
    THEN [c \in 1..9 |->
            IF c >= 2 /\ line.tokens[c - 1].num
            THEN Num(line.tokens[c - 1].v) ELSE row[c]]
    ELSE row

\* getEnvironmentalReading, lines 183-199: as above, but only the first six
\* tokens are kept, in columns 0..5.
EnvironmentalRow(row, line) ==
    IF line.ok /\ Len(line.tokens) = 8
    THEN [c \in 1..6 |->
            IF line.tokens[c].num THEN Num(line.tokens[c].v) ELSE row[c]]
    ELSE row

\* The line the next readline() returns.
NextLine == IF HasNext THEN parser.stream[parser.pos + 1] ELSE TimeoutLine

\* for i in range(numValues) of getMultispectralReading.
StepMultispectral ==
    /\ parser.kind = "m"
    /\ ~parser.done
    /\ parser.pos < NumValues("m")
    /\ parser' = [parser EXCEPT
                    !.pos = @ + 1,
                    !.values[parser.pos + 1] = MultispectralRow(@, NextLine)]
    /\ UNCHANGED fleet

\* for i in range(numValues) of getEnvironmentalReading.
StepEnvironmental ==
    /\ parser.kind = "e"
    /\ ~parser.done
    /\ parser.pos < NumValues("e")
    /\ parser' = [parser EXCEPT
                    !.pos = @ + 1,
                    !.values[parser.pos + 1] = EnvironmentalRow(@, NextLine)]
    /\ UNCHANGED fleet

\* getGPSReading, lines 152-159: a GGA sentence is counted first and then
\* stored in row count (0-based) unless its fix is (0, 0); storing in row
\* numValues raises IndexError, which the except of line 160 swallows.
GPSValues(values, count, sentence) ==
    IF sentence.type = "GGA" /\ (sentence.lon # 0 \/ sentence.lat # 0)
          /\ count + 2 <= NumValues("g")
    THEN [values EXCEPT ![count + 2] =
              <<Num(sentence.lon), Num(sentence.lat)>>]
    ELSE values

\* while count < numValues of getGPSReading: one line that the device
\* sent.  (At the timeout readline() returns b"", parse raises and the loop
\* goes round with nothing changed.)
StepGPS ==
    /\ parser.kind = "g"
    /\ ~parser.done
    /\ parser.count < NumValues("g")
    /\ HasNext
    /\ LET sentence == parser.stream[parser.pos + 1] IN
       parser' = [parser EXCEPT
                    !.pos = @ + 1,
                    !.count = IF sentence.type = "GGA" THEN @ + 1 ELSE @,
                    !.values = GPSValues(@, parser.count, sentence)]
    /\ UNCHANGED fleet

Digits == {"0", "1", "2", "3", "4", "5", "6", "7", "8", "9"}

DigitValue(ch) ==
    CASE ch = "0" -> 0 [] ch = "1" -> 1 [] ch = "2" -> 2 [] ch = "3" -> 3
      [] ch = "4" -> 4 [] ch = "5" -> 5 [] ch = "6" -> 6 [] ch = "7" -> 7
      [] ch = "8" -> 8 [] ch = "9" -> 9

\* b"".join(charList): the empty reads stored in the list add nothing.
RECURSIVE Join(_)
Join(chars) ==
    IF chars = <<>> THEN <<>>
    ELSE IF Head(chars) = "" THEN Join(Tail(chars))
    ELSE <<Head(chars)>> \o Join(Tail(chars))

\* int(message) succeeds on a message of decimal digits.
IsInt(message) ==
    message # <<>> /\ \A k \in 1..Len(message) : message[k] \in Digits

RECURSIVE IntOf(_)
IntOf(message) ==
    IF message = <<>> THEN 0
    ELSE 10 * IntOf(SubSeq(message, 1, Len(message) - 1))
            + DigitValue(message[Len(message)])

\* Line 114: 0.00875 * (int(message) - 15.3), counted in units of
\* 0.000875 mm: 0.00875 * (raw - 15.3) = 0.000875 * (10 * raw - 153).
Calibrated(raw) == Num(10 * raw - 153)

\* getUltrasonicReading, lines 125-128: the exception (ValueError of int())
\* leaves the loop and the call returns through the except branch.
AcceptedAlways(measurement) == TRUE

\* getUltrasonicReading, line 115: if measurement >= 0.
Accepted(measurement) == measurement.num >= 0

UltrasonicAbort(p) == [p EXCEPT !.raised = TRUE, !.done = TRUE]

\* getUltrasonicReading, lines 111-124: one byte.  "\r" ends a frame: the
\* five slots are joined and converted, a distance >= 0 is stored in row
\* count, and the frame is counted; any other byte (the empty one of a
\* timeout too) goes into the slot at index, which wraps at 5.
UltrasonicByte(p, newChar) ==
    IF newChar = "\r"
    THEN LET message == Join(p.charList) IN
         IF ~IsInt(message) THEN UltrasonicAbort(p)
         ELSE LET measurement == Calibrated(IntOf(message)) IN
              [p EXCEPT
                 !.values[p.count + 1] =
                     IF Accepted(measurement) THEN <<measurement>> ELSE @,
                 !.index = 0,
                 !.count = @ + 1]
    ELSE [p EXCEPT
            !.charList[p.index + 1] = newChar,
            !.index = IF @ + 1 >= 5 THEN 0 ELSE @ + 1]

\* while count < numValues of getUltrasonicReading: one device.read().
StepUltrasonic ==
    /\ parser.kind = "u"
    /\ ~parser.done
    /\ parser.count < NumValues("u")
    /\ LET newChar == IF HasNext THEN parser.stream[parser.pos + 1] ELSE ""
           consumed == [parser EXCEPT
                          !.pos = IF HasNext THEN @ + 1 ELSE @]
       IN  parser' = UltrasonicByte(consumed, newChar)
    /\ UNCHANGED fleet

\* getMultispectralReading, line 65: the chlorophyll index of every row,
\* values[:, 7] / values[:, 6] - 1.
WithCI(values) ==
    [r \in 1..Len(values) |->
        [values[r] EXCEPT
           ![1] = RatAdd(RatDiv(values[r][8], values[r][7]), Num(-1))]]

\* The loop of the parser has ended.
LoopDone ==
    CASE parser.kind \in {"m", "e"} -> parser.pos >= NumValues(parser.kind)
      [] parser.kind \in {"g", "u"} -> parser.count >= NumValues(parser.kind)
      [] OTHER -> FALSE

\* The parser leaves its loop and returns (lines 86-87, 130, 163-164 and
\* 200-201).
ParserReturn ==
    /\ LoopDone
    /\ ~parser.done
    /\ parser' = [parser EXCEPT !.done = TRUE]
    /\ UNCHANGED fleet

\* The array a parser averages when it returns: for the multispectral one
\* with the index column of line 65.
Averaged ==
    IF parser.kind = "m" THEN WithCI(parser.values) ELSE parser.values

\* The vector a finished call returned: np.array([np.nan]) from the except
\* branch of getUltrasonicReading (line 128), else
\* np.nanmean(values, axis=0).
ParserOut ==
    IF parser.raised THEN <<NaN>>
    ELSE NanMean(Averaged, Width(parser.kind))

Kinds == {"m", "u", "g", "e"}

ParserStep ==
    \/ StepMultispectral
    \/ StepEnvironmental
    \/ StepGPS
    \/ StepUltrasonic
    \/ ParserReturn

ParseNext ==
    \/ \E kind \in Kinds : \E input \in Inputs(kind) : ParserCall(kind, input)
    \/ ParserStep

\* One call of one parser on one input.
ParseSpec == Init /\ [][ParseNext]_vars

\* The thread that runs the parser keeps running.
ParseFairSpec == ParseSpec /\ WF_vars(ParserStep)

\* ---------------------------------------------------------------------
\* setupGPSProjection and processGPS in numbers.  Angles in radians are
\* exact multiples of pi, planar coordinates and times are exact
\* fractions; a finite value that is no fraction is Inexact.
\* ---------------------------------------------------------------------

\* Latest clock value of the followed session, seconds.
MaxClock == 3

\* A finite float whose value the fractions cannot express.
Inexact == [nan |-> FALSE, num |-> 0, den |-> 0]

IsExact(a) == ~a.nan /\ a.den # 0

RatNeg(a) == IF a.nan THEN NaN ELSE [a EXCEPT !.num = -a.num]

RatSub(a, b) == RatAdd(a, RatNeg(b))

RatMul(a, b) ==
    IF a.nan \/ b.nan THEN NaN
    ELSE IF a = Inexact \/ b = Inexact
    THEN IF a = Num(0) \/ b = Num(0) THEN Num(0) ELSE Inexact
    ELSE IF a.den = 0 \/ b.den = 0
    THEN IF a.num = 0 \/ b.num = 0 THEN NaN
         ELSE Rat(a.num * b.num, 0)
    ELSE Rat(a.num * b.num, a.den * b.den)

Sign(a) == IF a.num > 0 THEN 1 ELSE IF a.num < 0 THEN -1 ELSE 0

IsSquare(k) == \E r \in 0..k : r * r = k

Root(k) == CHOOSE r \in 0..k : r * r = k

\* math.sqrt of a fraction that is not negative.
RatSqrt(a) ==
    IF a.nan THEN NaN
    ELSE IF ~IsExact(a) THEN a
    ELSE IF IsSquare(a.num) /\ IsSquare(a.den)
    THEN Rat(Root(a.num), Root(a.den))
    ELSE Inexact

\* math.pi * degrees / 180 (lines 512-513 and 538-539), in units of pi.
ToRadians(degrees) == RatDiv(degrees, Num(180))

\* Raw fixes (longitude, latitude) in degrees: a point, the point one
\* degree east of it and one to its north-west.
FixSamples ==
    {<<Num(-74), Num(45)>>, <<Num(-73), Num(45)>>, <<Num(-75), Num(46)>>}

\* Values <<F_lon, F_lat>> may take.  Lines 514-521 give them as positive
\* numbers fixed by the origin latitude; their trigonometry is not
\* computed, each of these pairs is allowed.
Scales == {<<Num(180), Num(180)>>, <<Num(180), Num(360)>>}

SetupGPSProjectionSwapped(reading, now, F_lon, F_lat) ==
    <<Num(now), ToRadians(reading[2]), ToRadians(reading[1]), F_lon, F_lat>>

\* setupGPSProjection(reading), lines 511-522: [origin_time,
\* origin_longitude, origin_latitude, F_lon, F_lat]; now is time.time().
SetupGPSProjection(reading, now, F_lon, F_lat) ==
    <<Num(now), ToRadians(reading[1]), ToRadians(reading[2]), F_lon, F_lat>>

\* processGPS, lines 538-542: gps_x and gps_y of a fix.
Planar(someValue, GPSConstants) ==
    <<RatMul(RatSub(ToRadians(someValue[1]), GPSConstants[2]),
             GPSConstants[4]),
      RatMul(RatSub(ToRadians(someValue[2]), GPSConstants[3]),
             GPSConstants[5])>>

\* variables["g"], lines 222-232: the fields of a processed GPS reading.
GPSVariables ==
    <<"Longitude", "Latitude", "GPS_X", "GPS_Y", "Vehicle_X", "Vehicle_Y",
      "Heading", "Velocity", "Time">>

\* measurements[label + "/" + name] of a stored reading.
Entry(reading, name) ==
    reading[CHOOSE k \in 1..Len(GPSVariables) : GPSVariables[k] = name]

OldValuesFromPrevious(num_readings, previous) ==
    IF previous = <<>> THEN <<>>
    ELSE <<Entry(previous[1], "Time"), Entry(previous[1], "GPS_X"),
           Entry(previous[1], "GPS_Y")>>

\* processGPS, lines 543-550: <<old_time, old_x, old_y>>; <<>> when
\* previous_measurements has no entry of the label (KeyError).
OldValues(num_readings, previous) ==
    IF num_readings = 0 THEN <<Num(0), Num(0), Num(0)>>
    ELSE IF previous = <<>> THEN <<>>
    ELSE <<Entry(previous[1], "Time"), Entry(previous[1], "GPS_X"),
           Entry(previous[1], "GPS_Y")>>

Atan2Swapped(y, x) ==
    IF y.nan \/ x.nan THEN NaN
    ELSE IF ~IsExact(y) \/ ~IsExact(x) THEN Inexact
    ELSE IF Sign(x) = 0
         THEN IF Sign(y) >= 0 THEN Num(0) ELSE Num(1)
    ELSE IF Sign(y) = 0
         THEN IF Sign(x) > 0 THEN Rat(1, 2) ELSE Rat(-1, 2)
    ELSE Inexact

\* math.atan2(y, x) in units of pi: exact on the axes and the diagonals.
Atan2(y, x) ==
    IF y.nan \/ x.nan THEN NaN
    ELSE IF ~IsExact(y) \/ ~IsExact(x) THEN Inexact
    ELSE IF Sign(y) = 0
         THEN IF Sign(x) >= 0 THEN Num(0) ELSE Num(1)
    ELSE IF Sign(x) = 0
         THEN IF Sign(y) > 0 THEN Rat(1, 2) ELSE Rat(-1, 2)
    ELSE IF RatMul(y, y) = RatMul(x, x)
         THEN IF Sign(x) > 0 THEN Rat(Sign(y), 4) ELSE Rat(3 * Sign(y), 4)
    ELSE Inexact

\* math.sin and math.cos of an angle in units of pi, exact on the axes.
Sin(angle) ==
    IF angle.nan THEN NaN
    ELSE IF angle = Num(0) \/ angle = Num(1) THEN Num(0)
    ELSE IF angle = Rat(1, 2) THEN Num(1)
    ELSE IF angle = Rat(-1, 2) THEN Num(-1)
    ELSE Inexact

Cos(angle) ==
    IF angle.nan THEN NaN
    ELSE IF angle = Rat(1, 2) \/ angle = Rat(-1, 2) THEN Num(0)
    ELSE IF angle = Num(0) THEN Num(1)
    ELSE IF angle = Num(1) THEN Num(-1)
    ELSE Inexact

\* cfg.ReadFloat(name): the offsets of the layout, in centimetres.
ReadFloat(cfg, name) ==
    CASE name = "DGLX" -> Num(100)
      [] name = "DGLY" -> Num(200)
      [] name = "DGRX" -> Num(100)
      [] name = "DGRY" -> Num(200)

\* processGPS, lines 556-574: <<vehicle_x, vehicle_y>> of the label's side.
Vehicle(label, cfg, gps_x, gps_y, heading_radians) ==
    LET x == IF Side(label) = "L" THEN "DGLX" ELSE "DGRX"
        y == IF Side(label) = "L" THEN "DGLY" ELSE "DGRY"
        dgx == RatDiv(ReadFloat(cfg, x), Num(100))
        dgy == RatDiv(ReadFloat(cfg, y), Num(100))
        sx == RatMul(dgx, Sin(heading_radians))
        cx == RatMul(dgx, Cos(heading_radians))
        sy == RatMul(dgy, Sin(heading_radians))
        cy == RatMul(dgy, Cos(heading_radians))
    IN  IF Side(label) = "L"
        THEN <<RatSub(RatAdd(gps_x, sx), cy), RatSub(RatSub(gps_y, cx), sy)>>
        ELSE <<RatSub(RatSub(gps_x, sx), cy), RatSub(RatAdd(gps_y, cx), sy)>>

\* processGPS(someValue, label, GPS_constants, previous_measurements,
\* num_readings, cfg), lines 533-588, called when time.time() is now:
\* "raise" with the line that raises, "None" (line 575) or the vector.
\* GPSConstants and previous are <<>> for None and for a missing entry.
ProcessFix(someValue, label, GPSConstants, previous, num_readings, cfg, now) ==
    IF GPSConstants = <<>>
    THEN [tag |-> "raise", line |-> 533, reading |-> <<>>]
    ELSE
    LET constants == GPSConstants[1]
        new_time == RatSub(Num(now), constants[1])
        planar == Planar(someValue, constants)
        gps_x == planar[1]
        gps_y == planar[2]
        old == OldValues(num_readings, previous)
    IN  IF old = <<>>
        THEN [tag |-> "raise", line |-> 548, reading |-> <<>>]
        ELSE
        LET dx == RatSub(gps_x, old[2])
            dy == RatSub(gps_y, old[3])
            dt == RatSub(new_time, old[1])
            heading_radians == Atan2(dy, dx)
            velocity ==
                RatDiv(RatSqrt(RatAdd(RatMul(dx, dx), RatMul(dy, dy))), dt)
            heading == RatMul(Num(180), heading_radians)
            vehicle == Vehicle(label, cfg, gps_x, gps_y, heading_radians)
        IN  IF dt = Num(0)
            THEN [tag |-> "raise", line |-> 552, reading |-> <<>>]
            ELSE IF cfg.isNone
            THEN [tag |-> "raise", line |-> 556, reading |-> <<>>]
            ELSE IF HasOffsets(label, cfg)
            THEN [tag |-> "value", line |-> 576,
                  reading |-> <<someValue[1], someValue[2], gps_x, gps_y,
                                vehicle[1], vehicle[2], heading, velocity,
                                new_time>>]
            ELSE [tag |-> "None", line |-> 575, reading |-> <<>>]

\* The cfg values the followed session is called with: None, no offsets,
\* both offsets of the side.
GPSConfigs ==
    {c \in Configs : c.entries \in {{}, {"DGLX", "DGLY"}}}

\* setupGPS, line 499: the frame of the first complete fix, delay seconds
\* after the handler was built.
GPSSetup(reading, delay, scale) ==
    /\ gps.constants = <<>>
    /\ gps.now + delay <= MaxClock
    /\ gps' = [gps EXCEPT
                  !.now = gps.now + delay,
                  !.origin = <<reading>>,
                  !.constants =
                      <<SetupGPSProjection(reading, gps.now + delay,
                                           scale[1], scale[2])>>,
                  !.call = <<>>]
    /\ UNCHANGED <<order, conn, orphaned, maps, main, n, prior, parser, plot,
                   store, rt>>

\* read() of the GPS label with a cfg, lines 462-475 (simulate, lines
\* 431-445), delay seconds after the last step: processGPS on the fix with
\* the stored reading as previous measurement, and the result stored field
\* by field.  A result of None raises at line 475 (445) before anything is
\* stored.  The caller passes the number of readings it has taken, or 0
\* when it starts to count again.
GPSProcess(someValue, num_readings, cfg, delay) ==
    /\ gps.count < MaxReadings
    /\ num_readings \in {0, gps.count}
    /\ gps.now + delay <= MaxClock
    /\ LET out == ProcessFix(someValue, "gL", gps.constants, gps.measured,
                             num_readings, cfg, gps.now + delay)
       IN  gps' = [gps EXCEPT
                      !.now = gps.now + delay,
                      !.measured = IF out.tag = "value"
                                   THEN <<out.reading>> ELSE @,
                      !.count = IF out.tag = "value" THEN @ + 1 ELSE @,
                      !.call = <<[someValue |-> someValue,
                                  num_readings |-> num_readings,
                                  cfg |-> cfg,
                                  previous |-> gps.measured,
                                  out |-> out]>>]
    /\ UNCHANGED <<order, conn, orphaned, maps, main, n, prior, parser, plot,
                   store, rt>>

GPSNext ==
    \/ \E reading \in FixSamples, delay \in {0, 1}, scale \in Scales :
            GPSSetup(reading, delay, scale)
    \/ \E someValue \in FixSamples, num_readings \in 0..MaxReadings,
          cfg \in GPSConfigs, delay \in {0, 1} :
            GPSProcess(someValue, num_readings, cfg, delay)

\* One GPS label: its frame set up and fixes processed as the clock advances.
GPSSpec == Init /\ [][GPSNext]_vars

\* ---------------------------------------------------------------------
\* Labels of the main window and the rows of PlotData
\* (src/src/main_window.py, src/src/plot_notebook.py).  A label is the
\* sequence of its characters.
\* ---------------------------------------------------------------------

\* Largest numSensors followed (the spin control of the ports dialog,
\* ports_dialog.py line 67, starts at 1).
MaxSensors == 10

\* x_len: points kept for each row.
XLen == 2

\* updateData calls followed after a reset.
MaxUpdates == 2

\* devices, ports_dialog.py lines 19-24: the kinds that scale.
Scaling(sensor_type) == sensor_type \in {"m", "u"}

\* Kinds of which a PlotData object is followed.
PlotKinds == {"m", "g"}

DigitChar(d) == CHOOSE ch \in Digits : DigitValue(ch) = d

\* str(k) of a positive integer.
RECURSIVE Str(_)
Str(k) ==
    IF k < 10 THEN <<DigitChar(k)>>
    ELSE Str(k \div 10) \o <<DigitChar(k % 10)>>

\* getLabels, main_window.py lines 711-726: the labels of one kind.
GetLabels(initial, num_sensors) ==
    IF Scaling(initial)
    THEN {<<initial, side>> \o Str(k + 1) :
             side \in {"L", "R"}, k \in 0..(num_sensors - 1)}
    ELSE {<<initial, "L">>, <<initial, "R">>}

UpdateIndexWholeSuffix(label, scaling, num_sensors) ==
    IF scaling
    THEN (IntOf(SubSeq(label, 3, Len(label))) - 1)
             + (IF label[2] = "R" THEN num_sensors ELSE 0)
    ELSE IF label[2] = "L" THEN 0 ELSE 1

\* updateData, plot_notebook.py lines 250-258: the row of data the label
\* addresses; label[2] is the third character.
UpdateIndex(label, scaling, num_sensors) ==
    IF scaling
    THEN (DigitValue(label[3]) - 1)
             + (IF label[2] = "R" THEN num_sensors ELSE 0)
    ELSE IF label[2] = "L" THEN 0 ELSE 1

\* PlotData.__init__ and reset, plot_notebook.py lines 241-246 and
\* 265-271: every row holds x_len times -1.
PlotReset(sensor_type, num_sensors) ==
    /\ plot' = [sensor_type |-> sensor_type,
                scaling |-> Scaling(sensor_type),
                num_sensors |-> num_sensors,
                data |-> [r \in 1..(IF Scaling(sensor_type)
                                    THEN 2 * num_sensors ELSE 2) |->
                             [c \in 1..XLen |-> Num(-1)]],
                updates |-> <<>>]
    /\ UNCHANGED <<order, conn, orphaned, maps, main, n, prior, parser, gps,
                   store, rt>>

\* updateData(someValue, label), plot_notebook.py lines 248-263: the row
\* moves one place to the left and takes the value, or -1 for NaN, at its
\* end.
PlotUpdate(someValue, label) ==
    /\ plot.sensor_type # ""
    /\ Len(plot.updates) < MaxUpdates
    /\ label \in GetLabels(plot.sensor_type, plot.num_sensors)
    /\ LET index == UpdateIndex(label, plot.scaling, plot.num_sensors)
           row == plot.data[index + 1]
           last == IF someValue.nan THEN Num(-1) ELSE someValue
       IN  plot' = [plot EXCEPT
                       !.data[index + 1] = Tail(row) \o <<last>>,
                       !.updates = Append(@, [label |-> label,
                                              index |-> index,
                                              value |-> last])]
    /\ UNCHANGED <<order, conn, orphaned, maps, main, n, prior, parser, gps,
                   store, rt>>

PlotNext ==
    \/ \E sensor_type \in PlotKinds, num_sensors \in 1..MaxSensors :
            PlotReset(sensor_type, num_sensors)
    \/ \E someValue \in {NaN, Num(7)},
          label \in GetLabels(plot.sensor_type, plot.num_sensors) :
            PlotUpdate(someValue, label)

\* One PlotData object, reset and updated with the labels of its kind.
PlotSpec == Init /\ [][PlotNext]_vars

\* ---------------------------------------------------------------------
\* The measurements map key by key: what read() and simulate() of the
\* handler write.  A reading is None or a vector whose fields all carry
\* the mark of the call that produced it.
\* ---------------------------------------------------------------------

\* Marks that tell the readings of different calls apart.
Marks == {"a", "b"}

\* Fields of the vector processGPS returns (lines 576-588).
ProcessedWidth == 9

NoReading == [isNone |-> TRUE, cells |-> <<>>]

Vector(len, mark) == [isNone |-> FALSE, cells |-> [k \in 1..len |-> mark]]

\* What a connection's read() may hand out: None, or the vector of the
\* parser of the label's kind.
Stored(label) == {NoReading} \cup {Vector(Width(Kind(label)), m) : m \in Marks}

\* What processGPS may do with a reading: raise, return None or return its
\* vector; it raises on a reading of None (line 538).
ProcessGPSOutcomes(reading) ==
    IF reading.isNone THEN {[tag |-> "raise", reading |-> NoReading]}
    ELSE {[tag |-> "raise", reading |-> NoReading],
          [tag |-> "None", reading |-> NoReading],
          [tag |-> "value",
           reading |-> Vector(ProcessedWidth, reading.cells[1])]}

\* Lines 443-444 and 474-478: for i, variable_name in enumerate(
\* variables[label[0]]): measurements[label + "/" + variable_name] =
\* reading[i].  reading[i] raises on None and past the end of the vector;
\* the fields written before stay written.
RECURSIVE StoreLoop(_, _, _, _)
StoreLoop(fields, label, reading, k) ==
    IF k > FieldCount(label)
    THEN [fields |-> fields, raised |-> FALSE]
    ELSE IF reading.isNone \/ k > Len(reading.cells)
    THEN [fields |-> fields, raised |-> TRUE]
    ELSE StoreLoop([fields EXCEPT ![<<label, k>>] = reading.cells[k]],
                   label, reading, k + 1)

StoreCall(name, label, out) ==
    store' = [fields |-> out.fields,
              call |-> <<[name |-> name, label |-> label,
                          before |-> store.fields,
                          raised |-> out.raised]>>]

\* read(label, num_readings, cfg), lines 462-481, on the keys: known says
\* the label was added, value is what the connection's read() returns.
StoreRead(label, known, value, cfgNone, p) ==
    /\ p \in ProcessGPSOutcomes(value)
    /\ StoreCall("read", label,
          IF ~known
          THEN [fields |-> store.fields, raised |-> FALSE]
          ELSE IF Kind(label) = "g"
          THEN IF cfgNone
               THEN [fields |-> store.fields, raised |-> FALSE]
               ELSE IF p.tag = "raise"
               THEN [fields |-> store.fields, raised |-> TRUE]
               ELSE StoreLoop(store.fields, label, p.reading, 1)
          ELSE StoreLoop(store.fields, label, value, 1))
    /\ UNCHANGED <<order, conn, orphaned, maps, main, n, prior, parser, gps,
                   plot, rt>>

\* simulate(label, num_readings, cfg), lines 418-445, on the keys: a fix
\* through processGPS for the GPS, len(variables[label[0]]) random numbers
\* for the other kinds.
StoreSimulate(label, mark, p) ==
    /\ p \in ProcessGPSOutcomes(Vector(Width("g"), mark))
    /\ StoreCall("simulate", label,
          IF Kind(label) = "g"
          THEN IF p.tag = "raise"
               THEN [fields |-> store.fields, raised |-> TRUE]
               ELSE StoreLoop(store.fields, label, p.reading, 1)
          ELSE StoreLoop(store.fields, label,
                         Vector(FieldCount(label), mark), 1))
    /\ UNCHANGED <<order, conn, orphaned, maps, main, n, prior, parser, gps,
                   plot, rt>>

Outcomes ==
    {[tag |-> t, reading |-> r] :
        t \in {"raise", "None", "value"},
        r \in {NoReading} \cup {Vector(ProcessedWidth, m) : m \in Marks}}

StoreNext ==
    \/ \E label \in Labels, known \in BOOLEAN, cfgNone \in BOOLEAN,
          value \in UNION {Stored(l) : l \in Labels}, p \in Outcomes :
            /\ value \in Stored(label)
            /\ StoreRead(label, known, value, cfgNone, p)
    \/ \E label \in Labels, mark \in Marks, p \in Outcomes :
            StoreSimulate(label, mark, p)

\* The measurements map under read() and simulate() calls.
StoreSpec == Init /\ [][StoreNext]_vars

\* ---------------------------------------------------------------------
\* RepeatedTimer (src/src/repeated_timer.py) and the Start button of the
\* main window.  Each statement of start(), _run() and stop() is one step
\* of the thread that executes it; the steps of different threads
\* interleave freely.  A Timer is "new" (created), "pending" (started,
\* waiting for the interval), "fired" (its thread runs _run), "cancelled"
\* (finished without calling _run) or "void" (cancelled before it was
\* started).
\* ---------------------------------------------------------------------

\* Where a thread goes on when its start() call returns: the owner is
\* back in the event loop, a Timer thread goes on to line 32.
AfterStart(t) == IF t = 0 THEN "idle" ELSE "function"

\* Timers that are scheduled and have not fired.
Pending == {k \in 1..Len(rt.state) : rt.state[k] = "pending"}

\* MainWindow.OnStart, lines 409-415: the button is pressed and a
\* RepeatedTimer is made; __init__ (lines 11-19) sets the fields and
\* calls start().
Construct ==
    /\ ~rt.made
    /\ rt' = [rt EXCEPT !.made = TRUE, !.is_running = FALSE, !.timer = 0,
                        !.pc[0] = "test"]
    /\ UNCHANGED others

\* A call of start() by the owner of the object.
CallStart ==
    /\ rt.made /\ rt.pc[0] = "idle"
    /\ rt' = [rt EXCEPT !.pc[0] = "test", !.stopped = FALSE]
    /\ UNCHANGED others

\* MainWindow.OnStart, lines 416-418: the button is released, self.rt.stop().
CallStop ==
    /\ rt.made /\ rt.pc[0] = "idle"
    /\ rt' = [rt EXCEPT !.pc[0] = "cancel"]
    /\ UNCHANGED others

\* start(), line 23: if not self.is_running.
StartTest(t) ==
    /\ rt.pc[t] = "test"
    /\ rt' = [rt EXCEPT !.pc[t] = IF rt.is_running THEN AfterStart(t)
                                  ELSE "create"]
    /\ UNCHANGED others

\* start(), line 24: self._timer = Timer(self.interval, self._run).
StartCreate(t) ==
    /\ rt.pc[t] = "create"
    /\ Len(rt.state) < MaxTimers
    /\ rt' = [rt EXCEPT !.state = Append(@, "new"),
                        !.timer = Len(rt.state) + 1,
                        !.pc[t] = "launch"]
    /\ UNCHANGED others

\* start(), line 25: self._timer.start(), on the Timer self._timer names
\* at this moment.  Starting a thread a second time raises RuntimeError,
\* which leaves start() and its caller; a Timer cancelled before it was
\* started finishes at once.
StartLaunch(t) ==
    /\ rt.pc[t] = "launch"
    /\ LET now == rt.state[rt.timer]
       IN  rt' = IF now \in {"new", "void"}
                 THEN [rt EXCEPT !.state[rt.timer] =
                                     IF now = "new" THEN "pending"
                                     ELSE "cancelled",
                                 !.pc[t] = "flag"]
                 ELSE [rt EXCEPT !.raised = TRUE,
                                 !.pc[t] = IF t = 0 THEN "idle" ELSE "done"]
    /\ UNCHANGED others

\* start(), line 26: self.is_running = True.
StartFlag(t) ==
    /\ rt.pc[t] = "flag"
    /\ rt' = [rt EXCEPT !.is_running = TRUE, !.pc[t] = AfterStart(t)]
    /\ UNCHANGED others

\* threading.Timer: the interval of a pending Timer is over and its thread
\* calls _run.
Fire(t) ==
    /\ t \in Pending
    /\ rt' = [rt EXCEPT !.state[t] = "fired", !.pc[t] = "run"]
    /\ UNCHANGED others

\* _run(), lines 30-31: self.is_running = False, then self.start().
RunClear(t) ==
    /\ rt.pc[t] = "run"
    /\ rt' = [rt EXCEPT !.is_running = FALSE, !.pc[t] = "test"]
    /\ UNCHANGED others

\* _run(), line 32: self.function(*self.args, **self.kwargs) begins.
RunFunction(t) ==
    /\ rt.pc[t] = "function"
    /\ rt' = [rt EXCEPT !.pc[t] = "done"]
    /\ UNCHANGED others

\* stop(), line 36: self._timer.cancel().  cancel() ends the wait of a
\* Timer that has not fired and does nothing to one that has.
StopCancel ==
    /\ rt.pc[0] = "cancel"
    /\ LET now == rt.state[rt.timer]
       IN  rt' = [rt EXCEPT !.state[rt.timer] =
                                IF now = "pending" THEN "cancelled"
                                ELSE IF now = "new" THEN "void"
                                ELSE now,
                            !.pc[0] = "clear"]
    /\ UNCHANGED others

\* stop(), line 37: self.is_running = False, and stop() returns.
StopClear ==
    /\ rt.pc[0] = "clear"
    /\ rt' = [rt EXCEPT !.is_running = FALSE, !.stopped = TRUE,
                        !.pc[0] = "idle"]
    /\ UNCHANGED others

TimerNext ==
    \/ Construct
    \/ CallStart
    \/ CallStop
    \/ \E t \in Threads : StartTest(t)
    \/ \E t \in Threads : StartCreate(t)
    \/ \E t \in Threads : StartLaunch(t)
    \/ \E t \in Threads : StartFlag(t)
    \/ \E t \in Threads : Fire(t)
    \/ \E t \in Threads : RunClear(t)
    \/ \E t \in Threads : RunFunction(t)
    \/ StopCancel
    \/ StopClear

\* One RepeatedTimer, its owner and its Timer threads.
TimerSpec == Init /\ [][TimerNext]_vars

\* openAll(), lines 377-384: nothing inside the try raises (open() catches
\* its own exceptions, setupGPS only reads), so the except branch is not
\* a step of the model.
MainStep ==
    \/ \E label \in Labels : Add(label)
    \/ \E label \in Labels : Open(label)
    \/ \E label \in Labels : Close(label)
    \/ OpenAll
    \/ OpenAllOpen
    \/ SetupGPS
    \/ OpenAllCheck
    \/ CloseAll
    \/ CloseEnter
    \/ CloseJoin
    \/ CloseDevice
    \/ CloseFinish

ReaderStep(label) == ReaderLoop(label) \/ ReaderRead(label)

Next ==
    \/ MainStep
    \/ \E label \in Labels : ReaderStep(label)

Spec == Init /\ [][Next]_vars

\* The calls of the handler alone: add, openAll and closeAll; no
\* connection is opened or closed behind the handler's back.
HandlerMain ==
    \/ \E label \in Labels : Add(label)
    \/ OpenAll
    \/ OpenAllOpen
    \/ SetupGPS
    \/ OpenAllCheck
    \/ CloseAll
    \/ CloseEnter
    \/ CloseJoin
    \/ CloseDevice
    \/ CloseFinish

HandlerNext ==
    \/ HandlerMain
    \/ \E label \in Labels : ReaderStep(label)

HandlerSpec == Init /\ [][HandlerNext]_vars

\* Labels registered where read cycles are followed.
ReadLabels == {"gL", "mL1"}

ReadMain ==
    \/ \E label \in ReadLabels : Add(label)
    \/ \E label \in ReadLabels : Open(label)
    \/ \E label \in ReadLabels : Close(label)
    \/ \E label \in ReadLabels : Read(label)
    \/ OpenAll
    \/ OpenAllOpen
    \/ SetupGPS
    \/ OpenAllCheck
    \/ CloseAll
    \/ CloseEnter
    \/ CloseJoin
    \/ CloseDevice
    \/ CloseFinish
    \/ \E name \in {"read", "simulate"} : CycleStart(name)
    \/ CycleCall

ReadNext ==
    \/ ReadMain
    \/ \E label \in ReadLabels : ReaderStep(label)

\* The fleet with its read cycles.
ReadSpec == Init /\ [][ReadNext]_vars

\* The calls of the handler on the labels of the read cycles, read() of a
\* label that was never added among them.
CallMain ==
    \/ \E label \in ReadLabels : Add(label)
    \/ \E label \in ReadLabels : ReadUnregistered(label)
    \/ OpenAll
    \/ OpenAllOpen
    \/ SetupGPS
    \/ OpenAllCheck
    \/ CloseAll
    \/ CloseEnter
    \/ CloseJoin
    \/ CloseDevice
    \/ CloseFinish
    \/ \E name \in {"read", "simulate"} : CycleStart(name)
    \/ CycleCall

CallNext ==
    \/ CallMain
    \/ \E label \in ReadLabels : ReaderStep(label)

CallSpec == Init /\ [][CallNext]_vars

\* The steps of a call that is under way.
MainProgress ==
    \/ OpenAllOpen
    \/ SetupGPS
    \/ OpenAllCheck
    \/ CloseEnter
    \/ CloseJoin
    \/ CloseDevice
    \/ CloseFinish

\* The threads are scheduled fairly: a call under way on the main thread
\* and every reader thread take their next step when it stays possible.
\* Nothing is assumed about the devices or about what the caller calls.
FairSpec ==
    /\ Spec
    /\ WF_vars(MainProgress)
    /\ \A label \in Labels : WF_vars(ReaderStep(label))

(***************************************************************************)
(* Properties                                                              *)
(***************************************************************************)

\* The main thread is inside close() of the label, past the guard.
InClose(label) == cur = label /\ pc \in {"c_join", "c_dev", "c_conn"}

\* C1: openAll called on a fleet whose connections are all Closed, in which
\* some open() failed, returns False and leaves every registered connection
\* Closed, the ones it opened before the failure included.
C1_Rollback ==
    (LastWas("openAll") /\ ev.preClosed /\ ev.failedAt > 0)
        => /\ ev.val = "False"
           /\ \A l \in Registered : Closed(l) /\ alive[l] = 0

\* openAll returned False after its second open() failed: the first
\* connection was opened in the call and rolled back.
C1_Witness ==
    /\ LastWas("openAll")
    /\ ev.preClosed
    /\ ev.failedAt = 2
    /\ ev.val = "False"
    /\ Closed(order[1])

\* C2: openAll returns True only if every registered connection is
\* connected when it returns.
C2_TrueOnlyIfAllConnected ==
    (LastWas("openAll") /\ ev.val = "True")
        => \A l \in Registered : sensors[l].is_connected

\* C3: the first-fix loop of setupGPS is entered only for a GPS label whose
\* open() succeeded, so it never waits on a connection that is not connected.
C3_FirstFixOnlyAfterOpen ==
    pc = "oa_gps" => (success = "True" /\ sensors[cur].is_connected)

\* C4: whenever no close() of the connection is under way (open() is one
\* step), connected implies device and thread are set, and not connected
\* implies both are None.
C4_ConnectionInvariant ==
    \A l \in Labels :
        ~InClose(l) =>
            /\ sensors[l].is_connected =>
                   (sensors[l].device # "None" /\ sensors[l].thread # "None")
            /\ ~sensors[l].is_connected =>
                   (sensors[l].device = "None" /\ sensors[l].thread = "None")

\* One connection is Open while another one has been opened and closed.
C4_Witness ==
    \E l, m \in Registered :
        /\ op = "idle"
        /\ sensors[l].is_connected
        /\ sensors[l].device = "Serial"
        /\ Closed(m)
        /\ sensors[m].value # "None"

\* A step of the main thread that is the open() call of the label.
OpenStep(label) == Open(label) \/ (OpenAllOpen /\ cur = label)

\* C5: a connection never has more than one running reader thread; an
\* open() that succeeds from Closed starts exactly one, and an open() of a
\* connected connection starts none and changes nothing of the connection.
C5_OneReader ==
    /\ [](\A l \in Labels : alive[l] <= 1)
    /\ [][(ev'.kind = "open" /\ OpenStep(ev'.label)) =>
            LET l == ev'.label IN
            IF sensors[l].is_connected
            THEN /\ sensors'[l] = sensors[l]
                 /\ alive'[l] = alive[l]
                 /\ rpc'[l] = rpc[l]
                 /\ ev'.res = "None"
            ELSE IF ev'.res = "True"
            THEN alive[l] = 0 /\ alive'[l] = 1
            ELSE alive'[l] = alive[l]]_vars

\* open() was called on a connection that was already Open.
C5_Witness ==
    /\ ev.kind = "open"
    /\ ev.pre
    /\ ev.res = "None"
    /\ alive[ev.label] = 1

\* C6: open() of a Closed connection whose port cannot be acquired returns
\* False (it does not raise) and leaves the connection Closed with no
\* reader thread.
C6_OpenFailure ==
    (ev.kind = "open" /\ ~ev.pre /\ ~ev.acquired)
        => /\ ev.res = "False"
           /\ Closed(ev.label)
           /\ alive[ev.label] = 0
           /\ rpc[ev.label] = "dead"

\* open() failed on a connection that had been open before.
C6_Witness ==
    /\ ev.kind = "open"
    /\ ~ev.pre
    /\ ~ev.acquired
    /\ ev.res = "False"
    /\ sensors[ev.label].value # "None"

\* C7: close() of an Open connection eventually returns with the connection
\* Closed, for every kind and whatever the device sends.
C7_CloseReturns ==
    \A l \in Labels :
        (pc = "c_join" /\ cur = l) ~> (Closed(l) /\ ~InClose(l))

\* C8: in close() the stop flag is set first, the handle is released only
\* after the reader thread has ended and is_connected is cleared last; so
\* no parser call runs on a released handle and no reader thread is left
\* (to write the value) once the connection is not connected.
C8_CloseOrder ==
    \A l \in Labels :
        /\ InClose(l) => sensors[l].end_flag
        /\ sensors[l].device = "None" => alive[l] = 0
        /\ rpc[l] = "parse" => sensors[l].device = "Serial"
        /\ ~sensors[l].is_connected =>
               /\ sensors[l].device = "None"
               /\ sensors[l].thread = "None"
               /\ rpc[l] = "dead"

\* close() has joined a reader thread that had stored a reading and is
\* about to release the handle.
C8_Witness ==
    /\ pc = "c_dev"
    /\ sensors[cur].is_connected
    /\ sensors[cur].device = "Serial"
    /\ sensors[cur].value # "None"
    /\ alive[cur] = 0

\* C9: when closeAll has returned every registered connection is Closed.
C9_CloseAllCloses ==
    LastWas("closeAll") =>
        \A l \in Registered : Closed(l) /\ alive[l] = 0

\* closeAll returned on a fleet of two that was not all Closed at the call.
C9_Witness ==
    /\ LastWas("closeAll")
    /\ ~ev.preClosed
    /\ Len(order) = 2
    /\ \E l \in Registered : sensors[l].value # "None"

\* C10: a closeAll called directly after a closeAll returned changes
\* nothing of the fleet state and returns without an exception.
C10_CloseAllIdempotent ==
    /\ [][(op = "closeAll" /\ repeated) =>
            UNCHANGED <<order, sensors, alive, measurements,
                        previous_measurements, GPS_constants>>]_vars
    /\ []((LastWas("closeAll") /\ ev.repeated) => ev.val = "None")

\* The second closeAll returned; the first had closed a connection that
\* holds a reading.
C10_Witness ==
    /\ LastWas("closeAll")
    /\ ev.repeated
    /\ Len(order) = 2
    /\ \E l \in Registered : sensors[l].value # "None"

\* A step of the main thread that is one read() / simulate() call of the
\* running cycle.
CallStep == pc = "rc_call" /\ ev'.kind = "call" /\ (i' # i \/ op' = "idle")

\* C11: after every call of a read cycle that returns, previous_measurements
\* holds for every label what measurements held when the cycle began, never
\* a value stored by an earlier call of the same cycle.
C11_SnapshotPerCycle ==
    [][(CallStep /\ ev'.tag = "return") =>
          previous_measurements' = prior]_vars

\* C12: add() of a label that is already registered fails: the connection
\* registered under the label and its reader thread stay as they were.
C12_AddExistingFails ==
    [][\A l \in Labels :
         (op = "idle" /\ l \in Registered /\ Add(l)) =>
             (sensors'[l] = sensors[l] /\ alive'[l] = alive[l])]_vars

\* C15: a connected connection of the fleet was opened (serial.Serial is
\* called with self.baudrate, line 295) at 9600 baud when its label is of
\* kind g and at 38400 baud otherwise.
C15_BaudrateByKind ==
    \A l \in Registered :
        sensors[l].is_connected =>
            sensors[l].baudrate = IF Kind(l) = "g" THEN 9600
                                  ELSE DefaultBaudrate

\* C13: read() of a registered label whose connection has no stored
\* reading (SerialSensor.read() returns None) returns; it does not raise.
C13_ReadWithoutReading ==
    [][(CallStep /\ op = "read" /\ cur \in Registered
          /\ SensorRead(sensors[cur]) = "None") => ev'.tag = "return"]_vars

\* C14: read() / simulate() of a GPS label with a cfg that lacks the
\* offsets of the label's side returns without raising and leaves the
\* measurements as they were.
C14_MissingOffsets ==
    [][(CallStep /\ ev'.missing) =>
          (ev'.tag = "return" /\ measurements' = measurements)]_vars

\* C16: SerialSensor.read() changes nothing of the connection, its thread
\* or its device, and returns the stored value of a connected connection
\* and None of one that is not connected.
C16_ReadFrame ==
    [][(op = "idle" /\ ev'.kind = "sread" /\ ev' # ev) =>
          LET l == ev'.label IN
          /\ UNCHANGED <<sensors, alive, rpc, silent, order>>
          /\ UNCHANGED <<measurements, previous_measurements, GPS_constants>>
          /\ ev'.res = IF sensors[l].is_connected THEN sensors[l].value
                       ELSE "None"]_vars

\* read() of a connection that is closed and still holds the reading of
\* its last session returned None.
C16_Witness ==
    /\ ev.kind = "sread"
    /\ ev.res = "None"
    /\ ~sensors[ev.label].is_connected
    /\ sensors[ev.label].value = "ok"

\* C17: the value of a registered connection changes only in a step of its
\* own reader thread that stores the vector of a finished parser call and
\* nothing else (or the label gets a new object from add()); open(),
\* close(), read() and the handler's operations leave it as it is.
C17_SingleWriter ==
    [][\A l \in Labels :
         sensors'[l].value # sensors[l].value =>
             \/ /\ rpc[l] = "parse"
                /\ rpc'[l] = "loop"
                /\ sensors'[l] = [sensors[l] EXCEPT
                                     !.value = sensors'[l].value]
                /\ UNCHANGED main
             \/ /\ op = "idle"
                /\ op' = "idle"
                /\ sensors'[l] = NewSensor]_vars

\* A read cycle has stored the reading of a connection that was closed and
\* opened again after its reader thread stored it.
C17_Witness ==
    /\ ev.kind = "call"
    /\ \E l \in Registered :
        /\ sensors[l].is_connected
        /\ rpc[l] = "loop"
        /\ silent[l]
        /\ sensors[l].value = "ok"
        /\ measurements[l] = "ok"

\* C18: every parser call returns, on every input (also one in which no
\* line or frame is well formed), a vector of the length of its kind (9
\* multispectral, 1 ultrasonic, 6 environmental, 2 GPS) in which a field
\* with no valid sample is NaN.
C18_FixedLength ==
    /\ []((parser.kind # "none" /\ parser.done) =>
            /\ Len(ParserOut) = CASE parser.kind = "m" -> 9
                                   [] parser.kind = "u" -> 1
                                   [] parser.kind = "e" -> 6
                                   [] parser.kind = "g" -> 2
            /\ \A c \in 1..Len(ParserOut) :
                  (\A r \in 1..Len(Averaged) : Averaged[r][c].nan)
                      => ParserOut[c].nan)
    /\ (parser.kind # "none") ~> (parser.kind # "none" /\ parser.done)

\* The distance of a frame of the ultrasonic sensor taken by itself: NaN
\* unless its payload is a number whose calibrated distance is >= 0.
FrameDistance(frame) ==
    IF IsInt(frame) /\ Calibrated(IntOf(frame)).num >= 0
    THEN Calibrated(IntOf(frame)) ELSE NaN

\* C19: getUltrasonicReading on N complete five-byte frames of which one
\* has a payload that is not a number returns the mean of the distances of
\* the other, valid frames.
C19_UltrasonicSkipsBadFrame ==
    (/\ parser.kind = "u"
     /\ parser.done
     /\ Len(parser.input) = NumValues("u")
     /\ \A k \in 1..Len(parser.input) : Len(parser.input[k]) = 5
     /\ Cardinality({k \in 1..Len(parser.input) :
                        ~IsInt(parser.input[k])}) = 1)
        => ParserOut =
               <<NanMeanColumn([k \in 1..Len(parser.input) |->
                                   FrameDistance(parser.input[k])])>>

\* A sample line with eight numeric tokens, and one that is not a sample
\* (it could not be decoded or its token count is not 8).
WellFormed(line) ==
    /\ line.ok
    /\ Len(line.tokens) = 8
    /\ \A t \in 1..8 : line.tokens[t].num

Malformed(line) == ~line.ok \/ Len(line.tokens) # 8

\* The lines one call of getMultispectralReading reads from the input.
SampleLines ==
    SubSeq(parser.input, 1,
           IF Len(parser.input) < NumValues("m") THEN Len(parser.input)
           ELSE NumValues("m"))

RECURSIVE SumToken(_, _)
SumToken(lines, t) ==
    IF lines = <<>> THEN 0
    ELSE (IF WellFormed(Head(lines)) THEN Head(lines).tokens[t].v ELSE 0)
            + SumToken(Tail(lines), t)

\* C20: when every line getMultispectralReading reads is either well
\* formed or malformed, each of the fields 1..8 of the result is the sum of
\* that token over the well-formed lines divided by their number, the
\* index (field 0) is the mean of NIR / Red-Edge - 1 over the same lines,
\* and the fields are all NaN exactly when no line is well formed.
C20_MultispectralMean ==
    (/\ parser.kind = "m"
     /\ parser.done
     /\ \A k \in 1..Len(SampleLines) :
            WellFormed(SampleLines[k]) \/ Malformed(SampleLines[k]))
        => LET good == {k \in 1..Len(SampleLines) :
                           WellFormed(SampleLines[k])}
               ci(k) == Rat(SampleLines[k].tokens[7].v
                              - SampleLines[k].tokens[6].v,
                            SampleLines[k].tokens[6].v)
           IN  /\ \A c \in 2..9 :
                     ParserOut[c] =
                         Rat(SumToken(SampleLines, c - 1), Cardinality(good))
               /\ ParserOut[1] =
                     NanMeanColumn([k \in 1..Len(SampleLines) |->
                                      IF k \in good THEN ci(k) ELSE NaN])
               /\ (\A c \in 1..9 : ParserOut[c].nan) <=> good = {}

\* A call has averaged two different well-formed lines and skipped a
\* malformed one between them: NDRE is (2 + 2) / 2 and Red is (7 + 1) / 2.
C20_Witness ==
    /\ parser.kind = "m"
    /\ parser.done
    /\ Len(parser.input) = 3
    /\ WellFormed(parser.input[1])
    /\ Malformed(parser.input[2])
    /\ WellFormed(parser.input[3])
    /\ parser.input[1] # parser.input[3]
    /\ ParserOut[2] = Num(2)
    /\ ParserOut[9] = Num(4)

\* C21: the chlorophyll index of the vector getMultispectralReading returns
\* is (NIR / Red-Edge) - 1 of the averaged NIR and Red-Edge fields of that
\* vector.
C21_IndexFromAverages ==
    (parser.kind = "m" /\ parser.done)
        => ParserOut[1] =
               RatAdd(RatDiv(ParserOut[8], ParserOut[7]), Num(-1))

\* The GGA sentences among the lines a call of getGPSReading has read.
RECURSIVE Fixes(_)
Fixes(lines) ==
    IF lines = <<>> THEN <<>>
    ELSE IF Head(lines).type = "GGA"
    THEN <<Head(lines)>> \o Fixes(Tail(lines))
    ELSE Fixes(Tail(lines))

\* C22: when the GGA sentences getGPSReading has counted all carry a fix
\* other than (0, 0), the vector it returns is the mean longitude and the
\* mean latitude of all numValues of them, whatever other lines came in
\* between.
C22_AllFixesCount ==
    (/\ parser.kind = "g"
     /\ parser.done
     /\ \A k \in 1..parser.pos :
           parser.stream[k].type = "GGA" =>
               (parser.stream[k].lon # 0 \/ parser.stream[k].lat # 0))
        => LET fixes == Fixes(SubSeq(parser.stream, 1, parser.pos)) IN
           /\ Len(fixes) = NumValues("g")
           /\ ParserOut =
                <<NanMeanColumn([k \in 1..Len(fixes) |-> Num(fixes[k].lon)]),
                  NanMeanColumn([k \in 1..Len(fixes) |-> Num(fixes[k].lat)])>>

\* C23: the step of openAll that stores GPS_constants computes it from a
\* reading without a missing field, taken from a connection that open()
\* opened in this call of openAll.
C23_FrameFromOpenedConnection ==
    [][(pc = "oa_gps" /\ pc' # "oa_gps")
          => (/\ GPS_constants' = "frame"
              /\ ReadValue(cur) = "ok"
              /\ success = "True")]_vars

\* C24: GPS_constants changes only in the step of openAll's first-fix loop
\* that stores it; read, simulate, closeAll and every other step leave it
\* as it is.
C24_FrameImmutable ==
    [][GPS_constants' # GPS_constants
          => (op = "openAll" /\ pc = "oa_gps" /\ ReadValue(cur) = "ok")]_vars

\* A read or simulate call returned with the frame still in place after the
\* connections it was built from were closed again.
C24_Witness ==
    /\ GPS_constants = "frame"
    /\ ev.kind = "call"
    /\ ev.tag = "return"
    /\ AllClosed

\* The last step of the followed GPS session was a processGPS call that
\* returned the nine-field vector.
Processed == gps.call # <<>> /\ gps.call[1].out.tag = "value"

\* C25: with num_readings = 0 processGPS measures heading and velocity
\* against time 0 and position (0, 0), raises no KeyError (line 548) and
\* gives the result it gives without any previous measurement; with
\* num_readings > 0 it measures them against the Time, GPS_X and GPS_Y the
\* label had before the call.
C25_FirstReadingPolicy ==
    gps.call # <<>> =>
        LET c == gps.call[1]
            reading == c.out.reading
            old == IF c.num_readings = 0
                   THEN <<Num(0), Num(0), Num(0)>>
                   ELSE <<Entry(c.previous[1], "Time"),
                          Entry(c.previous[1], "GPS_X"),
                          Entry(c.previous[1], "GPS_Y")>>
            dx == RatSub(Entry(reading, "GPS_X"), old[2])
            dy == RatSub(Entry(reading, "GPS_Y"), old[3])
            dt == RatSub(Entry(reading, "Time"), old[1])
        IN  /\ c.num_readings = 0 =>
                /\ c.out.line # 548
                /\ c.out = ProcessFix(c.someValue, "gL", gps.constants,
                                      <<>>, 0, c.cfg, gps.now)
            /\ c.out.tag = "value" =>
                /\ Entry(reading, "Heading") =
                       RatMul(Num(180), Atan2(dy, dx))
                /\ Entry(reading, "Velocity") =
                       RatDiv(RatSqrt(RatAdd(RatMul(dx, dx), RatMul(dy, dy))),
                              dt)

\* A call with num_readings = 0 returned while the label had a previous
\* position away from the origin.
C25_Witness ==
    /\ Processed
    /\ gps.call[1].num_readings = 0
    /\ gps.call[1].previous # <<>>
    /\ Entry(gps.call[1].previous[1], "GPS_X") # Num(0)

\* C26: the fix the frame was set up from has planar coordinates (0, 0) in
\* that frame.
C26_OriginMapsToItself ==
    (Processed /\ gps.call[1].someValue = gps.origin[1])
        => /\ Entry(gps.call[1].out.reading, "GPS_X") = Num(0)
           /\ Entry(gps.call[1].out.reading, "GPS_Y") = Num(0)
           /\ Planar(gps.origin[1], gps.constants[1]) = <<Num(0), Num(0)>>

\* processGPS returned the vector of the fix the frame was set up from.
C26_Witness ==
    /\ Processed
    /\ gps.call[1].someValue = gps.origin[1]
    /\ gps.origin[1][1] # gps.origin[1][2]

\* The frame was set up at a fix, and processGPS returned the vector of a
\* fix of the same latitude and a larger longitude, measured against that
\* first fix one second earlier: against the zero baseline one second
\* after the frame was set up, or against a previous reading at (0, 0).
Eastward ==
    /\ Processed
    /\ LET c == gps.call[1] IN
       /\ c.someValue[2] = gps.origin[1][2]
       /\ Sign(RatSub(c.someValue[1], gps.origin[1][1])) > 0
       /\ \/ /\ c.num_readings = 0
             /\ Entry(c.out.reading, "Time") = Num(1)
          \/ /\ c.num_readings > 0
             /\ Entry(c.previous[1], "GPS_X") = Num(0)
             /\ Entry(c.previous[1], "GPS_Y") = Num(0)
             /\ RatSub(Entry(c.out.reading, "Time"),
                       Entry(c.previous[1], "Time")) = Num(1)

\* C27 as stated: in the eastward scenario the heading is 90 degrees (or
\* -90 or 270 under the opposite sign convention) and the velocity is the
\* planar delta-x divided by 1.0.
C27_HeadingNinety ==
    Eastward =>
        /\ Entry(gps.call[1].out.reading, "Heading")
               \in {Num(90), Num(-90), Num(270)}
        /\ Entry(gps.call[1].out.reading, "Velocity") =
               RatDiv(Entry(gps.call[1].out.reading, "GPS_X"), Num(1))

\* C27: in the eastward scenario the heading is 0 degrees, the angle of
\* atan2(delta-y, delta-x) with delta-y = 0 and delta-x > 0, and the
\* velocity is the planar delta-x divided by 1.0.
C27_HeadingEast ==
    Eastward =>
        /\ Entry(gps.call[1].out.reading, "Heading") = Num(0)
        /\ Entry(gps.call[1].out.reading, "Velocity") =
               RatDiv(Entry(gps.call[1].out.reading, "GPS_X"), Num(1))
        /\ Sign(Entry(gps.call[1].out.reading, "Velocity")) > 0

\* The eastward scenario happened after an earlier reading at the origin.
C27_Witness ==
    /\ Eastward
    /\ gps.call[1].num_readings > 0

\* C28: for a registered GPS label whose connection holds a complete fix,
\* read and simulate called in the same state with that fix, the same
\* num_readings, clock and cfg (None included) both raise or both return
\* the same reading, and write the same measurements.
C28_SimulateFollowsRead ==
    \A l \in Registered :
        (Kind(l) = "g" /\ SensorRead(sensors[l]) = "ok") =>
            \A cfg \in Configs, elapsed \in BOOLEAN :
                LET r == ReadOutcome(l, n, cfg, elapsed)
                    s == SimulateOutcome(l, n, cfg, elapsed)
                IN  /\ (r.tag = "raise") = (s.tag = "raise")
                    /\ r.tag # "raise" => r.val = s.val
                    /\ r.write = s.write

\* C29: two different labels of one kind never address the same row of
\* PlotData, and the row of a label of a scaling kind is given by its whole
\* numeric suffix, for every numSensors the ports dialog allows.
C29_DistinctRows ==
    /\ \A a, b \in 1..Len(plot.updates) :
          plot.updates[a].label # plot.updates[b].label
              => plot.updates[a].index # plot.updates[b].index
    /\ \A a \in 1..Len(plot.updates) :
          plot.updates[a].index =
              UpdateIndexWholeSuffix(plot.updates[a].label, plot.scaling,
                                     plot.num_sensors)

\* C30: right after an open() that succeeded, read() of the connection
\* returns None: what the loop of an earlier session stored is not handed
\* out in the new session.
C30_NoStaleReading ==
    [][(ev' # ev /\ ev'.kind = "open" /\ ev'.res = "True")
          => SensorRead(sensors'[ev'.label]) = "None"]_vars

\* C31: when closeAll has returned after add, openAll and closeAll calls
\* only, no reader thread started by a connection of the fleet is running,
\* also not one of an object that add() replaced.
C31_NoThreadOutlives ==
    LastWas("closeAll") => (~orphaned /\ \A l \in Labels : alive[l] = 0)

\* C32: read() of the handler for a label that was never added returns
\* None and leaves sensors, measurements, previous_measurements and
\* GPS_constants as they were.
C32_ReadUnknownLabel ==
    [][(ev'.kind = "uread" /\ ev' # ev)
          => (/\ ev'.res = "None"
              /\ UNCHANGED <<sensors, measurements, previous_measurements,
                             GPS_constants>>)]_vars

\* C33: a read() or simulate() call of the handler changes the measurements
\* map only at the keys of its label, and there it writes every field of
\* the label's kind or none.
C33_OwnKeysAllOrNone ==
    store.call # <<>> =>
        LET c == store.call[1]
            own == {key \in Keys : key[1] = c.label}
        IN  /\ \A key \in Keys \ own : store.fields[key] = c.before[key]
            /\ \/ \A key \in own : store.fields[key] = c.before[key]
               \/ \E m \in Marks : \A key \in own : store.fields[key] = m

\* read() replaced the nine fields of the GPS label while the other labels
\* hold readings of the other mark.
C33_Witness ==
    /\ store.call # <<>>
    /\ store.call[1].name = "read"
    /\ store.call[1].label = "gL"
    /\ \A key \in Keys :
          /\ store.fields[key] = (IF key[1] = "gL" THEN "a" ELSE "b")
          /\ store.call[1].before[key] = "b"

\* C34: no processGPS call ends in the division by zero of lines 552-554,
\* also not when the fix is processed at the clock value of the frame
\* (num_readings = 0) or of the previous reading.
C34_NoZeroDivision ==
    gps.call # <<>> => gps.call[1].out.line # 552

\* C35: openAll on a handler with no registered connection returns; it
\* does not end in an exception.
C35_OpenAllOnEmptyFleet ==
    (LastWas("openAll") /\ order = <<>>) => ev.val # "raise"

\* C36: getUltrasonicReading on N complete frames of five digits returns
\* the mean of the calibrated distances that are not negative; a frame
\* with a negative distance is counted and adds nothing, and the result is
\* NaN when every distance is negative.
C36_NegativeDistanceMissing ==
    (/\ parser.kind = "u"
     /\ parser.done
     /\ Len(parser.input) = NumValues("u")
     /\ \A k \in 1..Len(parser.input) :
           Len(parser.input[k]) = 5 /\ IsInt(parser.input[k]))
        => /\ parser.count = NumValues("u")
           /\ ParserOut =
                <<NanMeanColumn([k \in 1..Len(parser.input) |->
                                    FrameDistance(parser.input[k])])>>

\* A call returned on frames of which one has a negative distance and
\* another one a positive distance.
C36_Witness ==
    /\ parser.kind = "u"
    /\ parser.done
    /\ Len(parser.input) = NumValues("u")
    /\ \A k \in 1..Len(parser.input) :
          Len(parser.input[k]) = 5 /\ IsInt(parser.input[k])
    /\ \E k \in 1..Len(parser.input) :
          Calibrated(IntOf(parser.input[k])).num < 0
    /\ \E k \in 1..Len(parser.input) :
          Calibrated(IntOf(parser.input[k])).num > 0
    /\ ~ParserOut[1].nan

\* The values stored for a label by the updateData calls since the reset,
\* in arrival order (-1 for a NaN).
RECURSIVE GivenFor(_, _)
GivenFor(updates, label) ==
    IF updates = <<>> THEN <<>>
    ELSE IF Head(updates).label = label
    THEN <<Head(updates).value>> \o GivenFor(Tail(updates), label)
    ELSE GivenFor(Tail(updates), label)

\* A window of XLen places: the last values of a sequence at its right
\* end, -1 to their left.
Window(values) ==
    LET k == Len(values)
        kept == IF k <= XLen THEN k ELSE XLen
    IN  [c \in 1..(XLen - kept) |-> Num(-1)]
            \o SubSeq(values, k - kept + 1, k)

\* C37: after any updateData calls every row of data has x_len places, and
\* the row a label addresses holds the last min(k, x_len) of the k values
\* given for that label, in arrival order at its right end, with -1 to
\* their left; no call for another label changes it.
C37_SlidingWindow ==
    plot.sensor_type # "" =>
        /\ \A r \in 1..Len(plot.data) : Len(plot.data[r]) = XLen
        /\ \A label \in GetLabels(plot.sensor_type, plot.num_sensors) :
              plot.data[UpdateIndex(label, plot.scaling,
                                    plot.num_sensors) + 1]
                  = Window(GivenFor(plot.updates, label))

\* C38: a RepeatedTimer never has more than one Timer that is scheduled
\* and has not fired, however start() calls of the owner interleave with
\* _run on a Timer thread.
C38_AtMostOnePending == Cardinality(Pending) <= 1

\* C39: once stop() has returned, and until start() is called again, no
\* Timer is scheduled and no call of the periodic function begins.
C39_StoppedStaysStopped ==
    [][rt.stopped =>
          /\ Pending = {}
          /\ ~\E t \in Threads : rt.pc[t] = "function" /\ rt'.pc[t] = "done"]_vars

====
